---------------------------- MODULE Spec2Model ----------------------------
(***************************************************************************)
(* A model of the zkgate program: the shielded pool instructions           *)
(* (instructions/shielded_pool.rs), the proof gateway and reserve math     *)
(* (math.rs), the public swap helpers (instructions/swap.rs) and the       *)
(* monolithic entry points of lib.rs.                                      *)
(*                                                                         *)
(* Every instruction is one atomic step.  A handler is an operator from    *)
(* the ledger before the call and the call's arguments to a result code    *)
(* and the ledger the handler had written when it returned; the action     *)
(* keeps that ledger only when the handler returned Ok.                    *)
(***************************************************************************)
EXTENDS Integers, Sequences, FiniteSets, TLC

VARIABLES
    nullifier,   \* nullifier PDA -> the account found at that address
    balance,     \* token account -> amount held
    pool,        \* the AMM Pool record
    shielded,    \* shielded pool -> ShieldedPool record
    history,     \* root history account -> ShieldedRootHistory record
    last         \* the last call: its instruction, arguments, result and CPIs

vars == <<nullifier, balance, pool, shielded, history, last>>

ledgerVars == <<nullifier, balance, pool, shielded, history>>

-----------------------------------------------------------------------------
(* Integer widths.  u64 is scaled to 10 bits and u128 to 20 bits so that    *)
(* every 128-bit intermediate of the source fits TLC's integers.            *)

U64_MAX == 1023

U128_MAX == 1048575

\* Option::None of a checked operation (every value is a natural number).
None == 0 - 1

checked_add(a, b, max) == IF a + b > max THEN None ELSE a + b

checked_sub(a, b) == IF a < b THEN None ELSE a - b

checked_mul(a, b, max) == IF a * b > max THEN None ELSE a * b

-----------------------------------------------------------------------------
(* Bytes.                                                                   *)

Zeros(n) == [i \in 1..n |-> 0]

RECURSIVE from_be_bytes(_)
from_be_bytes(buf) ==
    IF buf = <<>> THEN 0
    ELSE 256 * from_be_bytes(SubSeq(buf, 1, Len(buf) - 1)) + buf[Len(buf)]

\* A 32-byte value (a root, a nullifier hash) written as a small number.
Bytes32(n) == Zeros(31) \o <<n>>

-----------------------------------------------------------------------------
(* Identities.  A Pubkey is 32 bytes; the model's accounts get the keys     *)
(* below, written as the last byte of each 16-byte half.                    *)

SYSTEM_PROGRAM == "system_program"
PROGRAM_ID == "zkgate"
VERIFIER == "verifier"

Mints == {"mint_a", "mint_b"}
ShieldedPools == {"sp_a", "sp_b"}
Histories == {"rh_a", "rh_b"}
Wallets == {"user", "trader", "attacker", "authority"}
TokenAccounts == {"vault_a", "vault_b", "reserve_a", "reserve_b",
                  "user_a", "user_b", "trader_a", "trader_b",
                  "attacker_a", "attacker_b"}
AMM_POOL == "pool"

\* The two 16-byte halves of each 32-byte key.  twin_a is a key that begins
\* with the 16 bytes of user_a and differs from it in the other 16; no
\* account of the state machine has it.
KeyHalves ==
    [mint_a |-> <<1, 1>>, mint_b |-> <<2, 1>>,
     sp_a |-> <<3, 1>>, sp_b |-> <<4, 1>>,
     rh_a |-> <<5, 1>>, rh_b |-> <<6, 1>>,
     vault_a |-> <<7, 1>>, vault_b |-> <<8, 1>>,
     reserve_a |-> <<9, 1>>, reserve_b |-> <<10, 1>>,
     user_a |-> <<11, 1>>, user_b |-> <<12, 1>>,
     attacker_a |-> <<13, 1>>, attacker_b |-> <<14, 1>>,
     pool |-> <<15, 1>>,
     trader_a |-> <<16, 1>>, trader_b |-> <<17, 1>>,
     twin_a |-> <<11, 2>>]

KeyTable ==
    [id \in DOMAIN KeyHalves |->
        Zeros(15) \o <<KeyHalves[id][1]>> \o Zeros(15) \o <<KeyHalves[id][2]>>]

\* Pubkey::to_bytes
to_bytes(id) == KeyTable[id]

\* The static part of every SPL token account: its mint and its owner.
TokenMint ==
    [vault_a |-> "mint_a", vault_b |-> "mint_b",
     reserve_a |-> "mint_a", reserve_b |-> "mint_b",
     user_a |-> "mint_a", user_b |-> "mint_b",
     trader_a |-> "mint_a", trader_b |-> "mint_b",
     attacker_a |-> "mint_a", attacker_b |-> "mint_b"]

TokenOwner ==
    [vault_a |-> "sp_a", vault_b |-> "sp_b",
     reserve_a |-> "pool", reserve_b |-> "pool",
     user_a |-> "user", user_b |-> "user",
     trader_a |-> "trader", trader_b |-> "trader",
     attacker_a |-> "attacker", attacker_b |-> "attacker"]

\* Pubkey::find_program_address(["shielded_pool", mint])
ShieldedPoolPda(mint) == IF mint = "mint_a" THEN "sp_a" ELSE "sp_b"

\* Pubkey::find_program_address(["shielded_root", pool])
RootHistoryPda(sp) == IF sp = "sp_a" THEN "rh_a" ELSE "rh_b"

\* The associated token account of a shielded pool for its mint.
VaultOf(sp) == IF sp = "sp_a" THEN "vault_a" ELSE "vault_b"

Hashes == {1, 2}

\* Pubkey::find_program_address(["nullifier", pool_key, nullifier_hash])
NullifierPda(pool_key, nullifier_hash) == <<"nullifier", pool_key, nullifier_hash>>

NullifierPdas == {NullifierPda(p, h) : p \in ShieldedPools, h \in Hashes}


-----------------------------------------------------------------------------
(* The public-input wire format (shielded_pool.rs).                         *)

PUBLIC_INPUTS_LEN == 6

FIELD_LEN == 32

HEADER_LEN == 12

ErrInvalidProof == "InvalidProof"

\* parse_field: a result code and the 32 bytes of field `index` (0-based).
parse_field(public_inputs, index) ==
    LET header == IF Len(public_inputs) = PUBLIC_INPUTS_LEN * FIELD_LEN + HEADER_LEN
                  THEN HEADER_LEN ELSE 0
        start == header + index * FIELD_LEN
        end == start + FIELD_LEN
    IN  IF Len(public_inputs) < end
        THEN [res |-> ErrInvalidProof, out |-> <<>>]
        ELSE [res |-> "Ok", out |-> SubSeq(public_inputs, start + 1, end)]

field_to_u64_low(field_bytes) ==
    [res |-> "Ok", out |-> from_be_bytes(SubSeq(field_bytes, 25, 32))]

\* field_to_u64: the high 24 bytes must be zero, the low 8 are big-endian.
field_to_u64(field_bytes) ==
    IF \E i \in 1..24 : field_bytes[i] # 0
    THEN [res |-> ErrInvalidProof, out |-> 0]
    ELSE [res |-> "Ok", out |-> from_be_bytes(SubSeq(field_bytes, 25, 32))]

\* pubkey_to_field_bytes: the first 16 bytes of the key in the last 16 bytes.
pubkey_to_field_bytes(key) == Zeros(16) \o SubSeq(to_bytes(key), 1, 16)

-----------------------------------------------------------------------------
(* The external collaborators.                                              *)

\* spl-token Transfer: the mints agree, the authority owns the source and
\* the source holds the amount.  ok, and the balances after the call.
token_transfer_no_debit(bal, from, to, authority, amount) ==
    IF TokenMint[from] # TokenMint[to] THEN [ok |-> FALSE, bal |-> bal]
    ELSE IF TokenOwner[from] # authority THEN [ok |-> FALSE, bal |-> bal]
    ELSE IF bal[from] < amount THEN [ok |-> FALSE, bal |-> bal]
    ELSE IF from = to THEN [ok |-> TRUE, bal |-> bal]
    ELSE [ok |-> TRUE, bal |-> [bal EXCEPT ![to] = @ + amount]]

token_transfer(bal, from, to, authority, amount) ==
    IF TokenMint[from] # TokenMint[to] THEN [ok |-> FALSE, bal |-> bal]
    ELSE IF TokenOwner[from] # authority THEN [ok |-> FALSE, bal |-> bal]
    ELSE IF bal[from] < amount THEN [ok |-> FALSE, bal |-> bal]
    ELSE IF from = to THEN [ok |-> TRUE, bal |-> bal]
    ELSE [ok |-> TRUE, bal |-> [bal EXCEPT ![from] = @ - amount, ![to] = @ + amount]]

\* parse_token_account: every account the model passes as a token account
\* unpacks; any other account does not.
parse_token_account(account) ==
    IF account \in TokenAccounts
    THEN [res |-> "Ok", mint |-> TokenMint[account]]
    ELSE [res |-> "InvalidShieldedAccount", mint |-> "none"]

-----------------------------------------------------------------------------
(* The proof verification gateway (math.rs).  `accepts` is the external     *)
(* verifier's answer to the payload, chosen by the environment.             *)

verify_zk_proof_unchecked(verifier_program, proof, public_inputs, accepts) ==
    IF verifier_program = SYSTEM_PROGRAM
    THEN [res |-> "InvalidVerifier", cpi |-> <<>>]
    ELSE [res |-> "Ok",
          cpi |-> <<[program_id |-> verifier_program,
                     data |-> proof \o public_inputs,
                     ok |-> accepts]>>]

verify_zk_proof_no_guard(verifier_program, proof, public_inputs, accepts) ==
    IF verifier_program = SYSTEM_PROGRAM
    THEN [res |-> "Ok", cpi |-> <<>>]
    ELSE [res |-> IF accepts THEN "Ok" ELSE ErrInvalidProof,
          cpi |-> <<[program_id |-> verifier_program,
                     data |-> proof \o public_inputs,
                     ok |-> accepts]>>]

verify_zk_proof(verifier_program, proof, public_inputs, accepts) ==
    IF verifier_program = SYSTEM_PROGRAM
    THEN [res |-> "InvalidVerifier", cpi |-> <<>>]
    ELSE [res |-> IF accepts THEN "Ok" ELSE ErrInvalidProof,
          cpi |-> <<[program_id |-> verifier_program,
                     data |-> proof \o public_inputs,
                     ok |-> accepts]>>]

\* lib.rs: the monolithic entry points' gateway, with its devnet bypass.
lib_verify_zk_proof(verifier_program, proof, public_inputs, accepts) ==
    IF verifier_program = SYSTEM_PROGRAM
    THEN [res |-> "Ok", cpi |-> <<>>]
    ELSE [res |-> IF accepts THEN "Ok" ELSE ErrInvalidProof,
          cpi |-> <<[program_id |-> verifier_program,
                     data |-> proof \o public_inputs,
                     ok |-> accepts]>>]

-----------------------------------------------------------------------------
(* The nullifier registry (shielded_pool.rs).                               *)

\* Nullifier::LEN: the discriminator and the one byte of `spent`.
Nullifier_LEN == 9

\* The discriminator #[account] gives Nullifier: sha256("account:Nullifier")[..8].
DISCRIMINATOR == <<18, 56, 142, 165, 181, 158, 187, 133>>

\* An address no account was created at: the system program's, without data.
NoAccount == [owner |-> SYSTEM_PROGRAM, data |-> <<>>]

\* AccountDeserialize::try_deserialize of Nullifier: the eight bytes of the
\* discriminator are checked, the struct is read from the bytes after them.
try_deserialize(data) ==
    IF Len(data) < Len(DISCRIMINATOR)
    THEN [res |-> "AccountDiscriminatorNotFound", spent |-> FALSE]
    ELSE IF SubSeq(data, 1, Len(DISCRIMINATOR)) # DISCRIMINATOR
    THEN [res |-> "AccountDiscriminatorMismatch", spent |-> FALSE]
    ELSE [res |-> "Ok", spent |-> data[Len(DISCRIMINATOR) + 1] # 0]

\* AnchorSerialize::serialize of Nullifier into the account's data: the
\* struct's one byte, written at the start of the buffer.
serialize(spent, data) ==
    <<IF spent THEN 1 ELSE 0>> \o SubSeq(data, 2, Len(data))

\* system_instruction::create_account: Nullifier::LEN zero bytes, owned by
\* the program.
create_account == [owner |-> PROGRAM_ID, data |-> Zeros(Nullifier_LEN)]

ensure_nullifier_account_hash_only(nul, nullifier_info, rent_paid, pool_key, nullifier_hash) ==
    LET expected_pda == NullifierPda(pool_key, nullifier_hash)
        account == nul[nullifier_info]
        nullifier_read == try_deserialize(account.data)
        spent_record == [create_account EXCEPT
                            !.data = serialize(TRUE, create_account.data)]
    IN  IF nullifier_info # expected_pda
        THEN [res |-> ErrInvalidProof, nul |-> nul]
        ELSE IF account.owner = PROGRAM_ID
        THEN IF Len(account.data) < Nullifier_LEN
             THEN [res |-> ErrInvalidProof, nul |-> nul]
             ELSE IF nullifier_read.res # "Ok"
             THEN [res |-> nullifier_read.res, nul |-> nul]
             ELSE IF nullifier_read.spent
             THEN [res |-> "NullifierAlreadySpent", nul |-> nul]
             ELSE [res |-> "Ok",
                   nul |-> [nul EXCEPT
                               ![nullifier_info].data = serialize(TRUE, account.data)]]
        ELSE IF account.owner # SYSTEM_PROGRAM
        THEN [res |-> "InvalidShieldedAccount", nul |-> nul]
        ELSE IF ~rent_paid
        THEN [res |-> "CreateAccountFailed", nul |-> nul]
        ELSE [res |-> "Ok",
              nul |-> [x \in DOMAIN nul |->
                          IF x[3] = nullifier_hash THEN spent_record ELSE nul[x]]]

ensure_nullifier_account_reset(nul, nullifier_info, rent_paid, pool_key, nullifier_hash) ==
    LET expected_pda == NullifierPda(pool_key, nullifier_hash)
        account == nul[nullifier_info]
    IN  IF nullifier_info # expected_pda
        THEN [res |-> ErrInvalidProof, nul |-> nul]
        ELSE IF account.owner = PROGRAM_ID
        THEN [res |-> "Ok",
              nul |-> [nul EXCEPT ![nullifier_info].data = serialize(FALSE, account.data)]]
        ELSE IF ~rent_paid
        THEN [res |-> "CreateAccountFailed", nul |-> nul]
        ELSE [res |-> "Ok",
              nul |-> [nul EXCEPT ![nullifier_info] =
                          [create_account EXCEPT
                              !.data = serialize(TRUE, create_account.data)]]]

ensure_nullifier_account_no_gate(nul, nullifier_info, rent_paid, pool_key, nullifier_hash) ==
    LET expected_pda == NullifierPda(pool_key, nullifier_hash)
        account == nul[nullifier_info]
    IN  IF nullifier_info # expected_pda
        THEN [res |-> ErrInvalidProof, nul |-> nul]
        ELSE IF account.owner = PROGRAM_ID
        THEN [res |-> "Ok",
              nul |-> [nul EXCEPT ![nullifier_info].data = serialize(TRUE, account.data)]]
        ELSE IF ~rent_paid
        THEN [res |-> "CreateAccountFailed", nul |-> nul]
        ELSE [res |-> "Ok",
              nul |-> [nul EXCEPT ![nullifier_info] =
                          [create_account EXCEPT
                              !.data = serialize(TRUE, create_account.data)]]]

ensure_nullifier_account_respend(nul, nullifier_info, rent_paid, pool_key, nullifier_hash) ==
    LET expected_pda == NullifierPda(pool_key, nullifier_hash)
        account == nul[nullifier_info]
    IN  IF nullifier_info # expected_pda
        THEN [res |-> ErrInvalidProof, nul |-> nul]
        ELSE IF account.owner = PROGRAM_ID
        THEN [res |-> "Ok", nul |-> nul]
        ELSE IF account.owner # SYSTEM_PROGRAM
        THEN [res |-> "InvalidShieldedAccount", nul |-> nul]
        ELSE IF ~rent_paid
        THEN [res |-> "CreateAccountFailed", nul |-> nul]
        ELSE [res |-> "Ok",
              nul |-> [nul EXCEPT ![nullifier_info] =
                          [create_account EXCEPT
                              !.data = serialize(TRUE, create_account.data)]]]

\* `rent_paid`: whether the payer can fund the record (system create_account).
ensure_nullifier_account(nul, nullifier_info, rent_paid, pool_key, nullifier_hash) ==
    LET expected_pda == NullifierPda(pool_key, nullifier_hash)
        account == nul[nullifier_info]
        nullifier_read == try_deserialize(account.data)
    IN  IF nullifier_info # expected_pda
        THEN [res |-> ErrInvalidProof, nul |-> nul]
        ELSE IF account.owner = PROGRAM_ID
        THEN IF Len(account.data) < Nullifier_LEN
             THEN [res |-> ErrInvalidProof, nul |-> nul]
             ELSE IF nullifier_read.res # "Ok"
             THEN [res |-> nullifier_read.res, nul |-> nul]
             ELSE IF nullifier_read.spent
             THEN [res |-> "NullifierAlreadySpent", nul |-> nul]
             ELSE [res |-> "Ok",
                   nul |-> [nul EXCEPT
                               ![nullifier_info].data = serialize(TRUE, account.data)]]
        ELSE IF account.owner # SYSTEM_PROGRAM
        THEN [res |-> "InvalidShieldedAccount", nul |-> nul]
        ELSE IF ~rent_paid
        THEN [res |-> "CreateAccountFailed", nul |-> nul]
        ELSE [res |-> "Ok",
              nul |-> [nul EXCEPT ![nullifier_info] =
                          [create_account EXCEPT
                              !.data = serialize(TRUE, create_account.data)]]]

-----------------------------------------------------------------------------
(* The root history ledger (state/shielded.rs).  The capacity is scaled     *)
(* from 32 slots; a slot holds the number n of the root Bytes32(n), and 0   *)
(* is the all-zero slot of a fresh ledger.                                  *)

ROOT_HISTORY_SIZE == 2

append_root(h, new_root) ==
    LET idx == h.current_index % ROOT_HISTORY_SIZE
    IN  [h EXCEPT !.roots[idx + 1] = new_root, !.current_index = @ + 1]

contains_root_prefix(h, root) ==
    \E i \in 0..(ROOT_HISTORY_SIZE - 1) :
        SubSeq(Bytes32(h.roots[i + 1]), 1, 31) = SubSeq(root, 1, 31)

contains_root(h, root) ==
    \E i \in 0..(ROOT_HISTORY_SIZE - 1) : Bytes32(h.roots[i + 1]) = root

-----------------------------------------------------------------------------
(* The global root history ledger (state/roots.rs).  The capacity is scaled *)
(* from 100 slots; a slot holds the number n of the root Bytes32(n).        *)

STATE_ROOT_HISTORY_SIZE == 2

\* A StateRootHistory account as `init` leaves it: zeroed.
StateRootHistoryInit ==
    [roots |-> [i \in 1..STATE_ROOT_HISTORY_SIZE |-> 0], current_index |-> 0,
     authority |-> "authority"]

append(h, new_root) ==
    LET idx == h.current_index % STATE_ROOT_HISTORY_SIZE
    IN  [h EXCEPT !.roots[idx + 1] = new_root, !.current_index = @ + 1]

contains_first_slot(h, root) == Bytes32(h.roots[1]) = root

contains(h, root) ==
    \E i \in 0..(STATE_ROOT_HISTORY_SIZE - 1) : Bytes32(h.roots[i + 1]) = root

-----------------------------------------------------------------------------
(* The reserve engine (math.rs).                                            *)

FEE_BPS == 30

FEE_DENOMINATOR == 10000

FEE_NUMERATOR == 997

FEE_DENOM == 1000

Quote(res, out) == [res |-> res, out |-> out]

calculate_fee_percent(amount) ==
    LET prod == checked_mul(amount, FEE_BPS, U128_MAX)
    IN  IF prod = None THEN Quote("MathOverflow", 0)
        ELSE Quote("Ok", (prod \div FEE_DENOM) % (U64_MAX + 1))

calculate_fee(amount) ==
    LET prod == checked_mul(amount, FEE_BPS, U128_MAX)
    IN  IF prod = None THEN Quote("MathOverflow", 0)
        ELSE Quote("Ok", (prod \div FEE_DENOMINATOR) % (U64_MAX + 1))

get_amount_out_no_fee(amount_in, reserve_in, reserve_out) ==
    IF ~(amount_in > 0) THEN Quote("ZeroAmount", 0)
    ELSE IF ~(reserve_in > 0 /\ reserve_out > 0) THEN Quote("InsufficientLiquidity", 0)
    ELSE
    LET amount_in_with_fee == checked_mul(amount_in, FEE_DENOM, U128_MAX)
    IN  IF amount_in_with_fee = None THEN Quote("MathOverflow", 0) ELSE
    LET numerator == checked_mul(amount_in_with_fee, reserve_out, U128_MAX)
    IN  IF numerator = None THEN Quote("MathOverflow", 0) ELSE
    LET scaled == checked_mul(reserve_in, FEE_DENOM, U128_MAX)
    IN  IF scaled = None THEN Quote("MathOverflow", 0) ELSE
    LET denominator == checked_add(scaled, amount_in_with_fee, U128_MAX)
    IN  IF denominator = None THEN Quote("MathOverflow", 0)
        ELSE IF denominator = 0 THEN Quote("MathOverflow", 0)
        ELSE Quote("Ok", (numerator \div denominator) % (U64_MAX + 1))

get_amount_out_reserves_first(amount_in, reserve_in, reserve_out) ==
    IF ~(reserve_in > 0 /\ reserve_out > 0) THEN Quote("InsufficientLiquidity", 0)
    ELSE IF ~(amount_in > 0) THEN Quote("ZeroAmount", 0)
    ELSE
    LET amount_in_with_fee == checked_mul(amount_in, FEE_NUMERATOR, U128_MAX)
    IN  IF amount_in_with_fee = None THEN Quote("MathOverflow", 0) ELSE
    LET numerator == checked_mul(amount_in_with_fee, reserve_out, U128_MAX)
    IN  IF numerator = None THEN Quote("MathOverflow", 0) ELSE
    LET scaled == checked_mul(reserve_in, FEE_DENOM, U128_MAX)
    IN  IF scaled = None THEN Quote("MathOverflow", 0) ELSE
    LET denominator == checked_add(scaled, amount_in_with_fee, U128_MAX)
    IN  IF denominator = None THEN Quote("MathOverflow", 0)
        ELSE IF denominator = 0 THEN Quote("MathOverflow", 0)
        ELSE Quote("Ok", (numerator \div denominator) % (U64_MAX + 1))

get_amount_out_sign(amount_in, reserve_in, reserve_out) ==
    IF ~(amount_in > 0) THEN Quote("ZeroAmount", 0)
    ELSE IF ~(reserve_in > 0 /\ reserve_out > 0) THEN Quote("InsufficientLiquidity", 0)
    ELSE
    LET amount_in_with_fee == checked_mul(amount_in, FEE_NUMERATOR, U128_MAX)
    IN  IF amount_in_with_fee = None THEN Quote("MathOverflow", 0) ELSE
    LET numerator == checked_mul(amount_in_with_fee, reserve_out, U128_MAX)
    IN  IF numerator = None THEN Quote("MathOverflow", 0) ELSE
    LET scaled == checked_mul(reserve_in, FEE_DENOM, U128_MAX)
    IN  IF scaled = None THEN Quote("MathOverflow", 0) ELSE
    LET denominator == checked_sub(scaled, amount_in_with_fee)
    IN  IF denominator = None THEN Quote("MathOverflow", 0)
        ELSE IF denominator = 0 THEN Quote("MathOverflow", 0)
        ELSE Quote("Ok", (numerator \div denominator) % (U64_MAX + 1))

get_amount_out_wrapping(amount_in, reserve_in, reserve_out) ==
    IF ~(amount_in > 0) THEN Quote("ZeroAmount", 0)
    ELSE IF ~(reserve_in > 0 /\ reserve_out > 0) THEN Quote("InsufficientLiquidity", 0)
    ELSE
    LET amount_in_with_fee == (amount_in * FEE_NUMERATOR) % (U128_MAX + 1)
        numerator == (amount_in_with_fee * reserve_out) % (U128_MAX + 1)
        scaled == (reserve_in * FEE_DENOM) % (U128_MAX + 1)
        denominator == (scaled + amount_in_with_fee) % (U128_MAX + 1)
    IN  IF denominator = 0 THEN Quote("MathOverflow", 0)
        ELSE Quote("Ok", (numerator \div denominator) % (U64_MAX + 1))

get_amount_out_round_up(amount_in, reserve_in, reserve_out) ==
    IF ~(amount_in > 0) THEN Quote("ZeroAmount", 0)
    ELSE IF ~(reserve_in > 0 /\ reserve_out > 0) THEN Quote("InsufficientLiquidity", 0)
    ELSE
    LET amount_in_with_fee == checked_mul(amount_in, FEE_NUMERATOR, U128_MAX)
    IN  IF amount_in_with_fee = None THEN Quote("MathOverflow", 0) ELSE
    LET numerator == checked_mul(amount_in_with_fee, reserve_out, U128_MAX)
    IN  IF numerator = None THEN Quote("MathOverflow", 0) ELSE
    LET scaled == checked_mul(reserve_in, FEE_DENOM, U128_MAX)
    IN  IF scaled = None THEN Quote("MathOverflow", 0) ELSE
    LET denominator == checked_add(scaled, amount_in_with_fee, U128_MAX)
    IN  IF denominator = None THEN Quote("MathOverflow", 0)
        ELSE IF denominator = 0 THEN Quote("MathOverflow", 0)
        ELSE Quote("Ok", ((numerator + denominator - 1) \div denominator) % (U64_MAX + 1))

get_amount_out(amount_in, reserve_in, reserve_out) ==
    IF ~(amount_in > 0) THEN Quote("ZeroAmount", 0)
    ELSE IF ~(reserve_in > 0 /\ reserve_out > 0) THEN Quote("InsufficientLiquidity", 0)
    ELSE
    LET amount_in_with_fee == checked_mul(amount_in, FEE_NUMERATOR, U128_MAX)
    IN  IF amount_in_with_fee = None THEN Quote("MathOverflow", 0) ELSE
    LET numerator == checked_mul(amount_in_with_fee, reserve_out, U128_MAX)
    IN  IF numerator = None THEN Quote("MathOverflow", 0) ELSE
    LET scaled == checked_mul(reserve_in, FEE_DENOM, U128_MAX)
    IN  IF scaled = None THEN Quote("MathOverflow", 0) ELSE
    LET denominator == checked_add(scaled, amount_in_with_fee, U128_MAX)
    IN  IF denominator = None THEN Quote("MathOverflow", 0)
        ELSE IF denominator = 0 THEN Quote("MathOverflow", 0)
        ELSE Quote("Ok", (numerator \div denominator) % (U64_MAX + 1))

-----------------------------------------------------------------------------
(* The ledger a handler works on, and what a handler returns: the result    *)
(* code, the ledger as the handler left it and the CPIs it made to a        *)
(* verifier.                                                                *)

Ledger ==
    [nullifier |-> nullifier, balance |-> balance, pool |-> pool,
     shielded |-> shielded, history |-> history]

Ret(res, L, cpi) == [res |-> res, L |-> L, cpi |-> cpi, events |-> <<>>]

-----------------------------------------------------------------------------
(* withdraw_shielded (shielded_pool.rs).  c: the accounts and arguments of  *)
(* the call, public_inputs and proof as bytes.                              *)

\* The six fields of the public inputs, parsed in order.
parse_fields(public_inputs) ==
    [i \in 0..(PUBLIC_INPUTS_LEN - 1) |-> parse_field(public_inputs, i)]

withdraw_bindings_no_recipient(c, f, sp, recipient_info) ==
    IF f[1].out # Bytes32(c.nullifier_hash) THEN ErrInvalidProof
    ELSE IF field_to_u64(f[2].out).res # "Ok" THEN field_to_u64(f[2].out).res
    ELSE IF field_to_u64(f[2].out).out # c.amount THEN ErrInvalidProof
    ELSE IF f[4].out # pubkey_to_field_bytes(sp.mint) THEN ErrInvalidProof
    ELSE IF f[5].out # pubkey_to_field_bytes(c.shielded_pool) THEN ErrInvalidProof
    ELSE "Ok"

\* The binding of fields 1 to 5 to the call's arguments and accounts.
withdraw_bindings(c, f, sp, recipient_info) ==
    IF f[1].out # Bytes32(c.nullifier_hash) THEN ErrInvalidProof
    ELSE IF field_to_u64(f[2].out).res # "Ok" THEN field_to_u64(f[2].out).res
    ELSE IF field_to_u64(f[2].out).out # c.amount THEN ErrInvalidProof
    ELSE IF f[3].out # pubkey_to_field_bytes(recipient_info) THEN ErrInvalidProof
    ELSE IF f[4].out # pubkey_to_field_bytes(sp.mint) THEN ErrInvalidProof
    ELSE IF f[5].out # pubkey_to_field_bytes(c.shielded_pool) THEN ErrInvalidProof
    ELSE "Ok"

withdraw_shielded(L, c) ==
    IF Len(c.public_inputs) < PUBLIC_INPUTS_LEN * FIELD_LEN
    THEN Ret(ErrInvalidProof, L, <<>>)
    ELSE IF ~(Len(c.remaining) >= 2)
    THEN Ret("InvalidShieldedAccount", L, <<>>)
    ELSE
    LET vault_info == c.remaining[1]
        recipient_info == c.remaining[2]
        v == verify_zk_proof(c.verifier_program, c.proof, c.public_inputs, c.accepts)
    IN  IF v.res # "Ok" THEN Ret(v.res, L, v.cpi) ELSE
    LET f == parse_fields(c.public_inputs)
        sp == L.shielded[c.shielded_pool]
        hist == L.history[c.root_history]
    IN  IF \E i \in DOMAIN f : f[i].res # "Ok"
        THEN Ret(ErrInvalidProof, L, v.cpi)
        ELSE IF vault_info # sp.vault
        THEN Ret("InvalidShieldedAccount", L, v.cpi)
        ELSE
    LET vault_account == parse_token_account(vault_info)
        recipient_account == parse_token_account(recipient_info)
    IN  IF vault_account.res # "Ok" \/ recipient_account.res # "Ok"
        THEN Ret("InvalidShieldedAccount", L, v.cpi)
        ELSE IF vault_account.mint # sp.mint
        THEN Ret("InvalidShieldedAccount", L, v.cpi)
        ELSE IF recipient_account.mint # sp.mint
        THEN Ret("InvalidShieldedAccount", L, v.cpi)
        ELSE IF sp.root_history # c.root_history
        THEN Ret("InvalidShieldedAccount", L, v.cpi)
        ELSE IF hist.pool # c.shielded_pool
        THEN Ret("InvalidShieldedAccount", L, v.cpi)
        ELSE IF ~contains_root(hist, f[0].out)
        THEN Ret("InvalidStateRoot", L, v.cpi)
        ELSE
    LET bound == withdraw_bindings(c, f, sp, recipient_info)
    IN  IF bound # "Ok" THEN Ret(bound, L, v.cpi) ELSE
    LET paid == token_transfer(L.balance, vault_info, recipient_info,
                               c.shielded_pool, c.amount)
    IN  IF ~paid.ok THEN Ret("TokenError", L, v.cpi) ELSE
    LET L1 == [L EXCEPT !.balance = paid.bal]
        n == ensure_nullifier_account(L1.nullifier, c.nullifier_account,
                                      c.rent_paid, c.shielded_pool, c.nullifier_hash)
    IN  IF n.res # "Ok" THEN Ret(n.res, L1, v.cpi)
        ELSE Ret("Ok", [L1 EXCEPT !.nullifier = n.nul], v.cpi)

-----------------------------------------------------------------------------
(* swap_private (shielded_pool.rs).                                         *)

\* The binding of fields 1 to 5 to the call's arguments and accounts.
swap_private_bindings(c, f, p, recipient_info) ==
    IF f[5].out # pubkey_to_field_bytes(c.input_shielded_pool) THEN ErrInvalidProof
    ELSE IF field_to_u64(f[2].out).res # "Ok" THEN field_to_u64(f[2].out).res
    ELSE IF field_to_u64(f[2].out).out # c.amount_in THEN ErrInvalidProof
    ELSE IF f[1].out # Bytes32(c.nullifier_hash) THEN ErrInvalidProof
    ELSE IF f[3].out # pubkey_to_field_bytes(recipient_info) THEN ErrInvalidProof
    ELSE IF f[4].out # (IF c.is_a_to_b THEN pubkey_to_field_bytes(p.token_a_mint)
                                       ELSE pubkey_to_field_bytes(p.token_b_mint))
    THEN ErrInvalidProof
    ELSE "Ok"

\* The checks of the accounts a shielded swap is given.
swap_private_accounts(L, c) ==
    LET p == L.pool
        reserve_in_account == parse_token_account(c.remaining[2])
        reserve_out_account == parse_token_account(c.remaining[3])
        recipient_account == parse_token_account(c.remaining[4])
        expected_in_mint == IF c.is_a_to_b THEN p.token_a_mint ELSE p.token_b_mint
        expected_out_mint == IF c.is_a_to_b THEN p.token_b_mint ELSE p.token_a_mint
        input_pool == L.shielded[c.input_shielded_pool]
        input_history == L.history[c.input_root_history]
    IN  IF reserve_in_account.res # "Ok" \/ reserve_out_account.res # "Ok"
           \/ recipient_account.res # "Ok"
        THEN "InvalidShieldedAccount"
        ELSE IF input_pool.mint # expected_in_mint THEN ErrInvalidProof
        ELSE IF c.remaining[1] # input_pool.vault THEN ErrInvalidProof
        ELSE IF parse_token_account(c.remaining[1]).res # "Ok"
        THEN "InvalidShieldedAccount"
        ELSE IF parse_token_account(c.remaining[1]).mint # input_pool.mint
        THEN ErrInvalidProof
        ELSE IF recipient_account.mint # expected_out_mint THEN ErrInvalidProof
        ELSE IF input_pool.root_history # c.input_root_history THEN ErrInvalidProof
        ELSE IF input_history.pool # c.input_shielded_pool THEN ErrInvalidProof
        ELSE IF reserve_in_account.mint # expected_in_mint THEN ErrInvalidProof
        ELSE IF reserve_out_account.mint # expected_out_mint THEN ErrInvalidProof
        ELSE "Ok"

\* The reserve bookkeeping at the end of swap_private: the input side is
\* written before the output side is computed.
update_amm_reserves(L, is_a_to_b, amount_in, amount_out) ==
    LET p == L.pool
        r_in == IF is_a_to_b THEN p.token_a_reserve ELSE p.token_b_reserve
        r_out == IF is_a_to_b THEN p.token_b_reserve ELSE p.token_a_reserve
        added == checked_add(r_in, amount_in, U64_MAX)
    IN  IF added = None THEN [res |-> "MathOverflow", L |-> L] ELSE
    LET L1 == IF is_a_to_b THEN [L EXCEPT !.pool.token_a_reserve = added]
                           ELSE [L EXCEPT !.pool.token_b_reserve = added]
        left == checked_sub(r_out, amount_out)
    IN  IF left = None THEN [res |-> "MathOverflow", L |-> L1]
        ELSE [res |-> "Ok",
              L |-> IF is_a_to_b THEN [L1 EXCEPT !.pool.token_b_reserve = left]
                                 ELSE [L1 EXCEPT !.pool.token_a_reserve = left]]

swap_private_legs_unchecked(L1, c) ==
    LET p == L1.pool
        moved == token_transfer(L1.balance, c.remaining[1], c.remaining[2],
                                c.input_shielded_pool, c.amount_in)
        L2 == [L1 EXCEPT !.balance = moved.bal]
        reserve_in_amount == IF c.is_a_to_b THEN p.token_a_reserve ELSE p.token_b_reserve
        reserve_out_amount == IF c.is_a_to_b THEN p.token_b_reserve ELSE p.token_a_reserve
        amount_out == get_amount_out(c.amount_in, reserve_in_amount, reserve_out_amount)
    IN  IF amount_out.res # "Ok" THEN [res |-> amount_out.res, L |-> L2]
        ELSE IF ~(amount_out.out >= c.min_out)
        THEN [res |-> "SlippageExceeded", L |-> L2]
        ELSE
    LET paid == token_transfer(L2.balance, c.remaining[3], c.remaining[4],
                               AMM_POOL, amount_out.out)
    IN  IF ~paid.ok THEN [res |-> "TokenError", L |-> L2] ELSE
        update_amm_reserves([L2 EXCEPT !.balance = paid.bal], c.is_a_to_b,
                            c.amount_in, amount_out.out)

\* Steps 2 and 3 of swap_private, on the ledger L1 with the nullifier
\* consumed: vault to reserve, the quote, the payout, the reserves.
swap_private_legs(L1, c) ==
    LET p == L1.pool
        moved == token_transfer(L1.balance, c.remaining[1], c.remaining[2],
                                c.input_shielded_pool, c.amount_in)
    IN  IF ~moved.ok THEN [res |-> "TokenError", L |-> L1] ELSE
    LET L2 == [L1 EXCEPT !.balance = moved.bal]
        reserve_in_amount == IF c.is_a_to_b THEN p.token_a_reserve ELSE p.token_b_reserve
        reserve_out_amount == IF c.is_a_to_b THEN p.token_b_reserve ELSE p.token_a_reserve
        amount_out == get_amount_out(c.amount_in, reserve_in_amount, reserve_out_amount)
    IN  IF amount_out.res # "Ok" THEN [res |-> amount_out.res, L |-> L2]
        ELSE IF ~(amount_out.out >= c.min_out)
        THEN [res |-> "SlippageExceeded", L |-> L2]
        ELSE
    LET paid == token_transfer(L2.balance, c.remaining[3], c.remaining[4],
                               AMM_POOL, amount_out.out)
    IN  IF ~paid.ok THEN [res |-> "TokenError", L |-> L2] ELSE
        update_amm_reserves([L2 EXCEPT !.balance = paid.bal], c.is_a_to_b,
                            c.amount_in, amount_out.out)

swap_private(L, c) ==
    IF Len(c.public_inputs) < PUBLIC_INPUTS_LEN * FIELD_LEN
    THEN Ret(ErrInvalidProof, L, <<>>)
    ELSE IF ~(Len(c.remaining) >= 4)
    THEN Ret("InvalidShieldedAccount", L, <<>>)
    ELSE
    LET v == verify_zk_proof(c.verifier_program, c.proof, c.public_inputs, c.accepts)
    IN  IF v.res # "Ok" THEN Ret(v.res, L, v.cpi) ELSE
    LET f == parse_fields(c.public_inputs)
    IN  IF \E i \in DOMAIN f : f[i].res # "Ok"
        THEN Ret(ErrInvalidProof, L, v.cpi)
        ELSE
    LET bound == swap_private_bindings(c, f, L.pool, c.remaining[4])
    IN  IF bound # "Ok" THEN Ret(bound, L, v.cpi) ELSE
    LET checked == swap_private_accounts(L, c)
    IN  IF checked # "Ok" THEN Ret(checked, L, v.cpi)
        ELSE IF ~contains_root(L.history[c.input_root_history], f[0].out)
        THEN Ret("InvalidStateRoot", L, v.cpi)
        ELSE
    LET n == ensure_nullifier_account(L.nullifier, c.nullifier_account, c.rent_paid,
                                      c.input_shielded_pool, c.nullifier_hash)
    IN  IF n.res # "Ok" THEN Ret(n.res, L, v.cpi) ELSE
    LET legs == swap_private_legs([L EXCEPT !.nullifier = n.nul], c)
    IN  Ret(legs.res, legs.L, v.cpi)

-----------------------------------------------------------------------------
(* The other shielded pool instructions (shielded_pool.rs).                 *)

initialize_shielded_pool(mint, vault, authority) ==
    [mint |-> mint, vault |-> vault, authority |-> authority,
     current_root |-> 0,
     root_history |-> RootHistoryPda(ShieldedPoolPda(mint)),
     next_index |-> 0]

initialize_shielded_root_history(sp) ==
    [roots |-> [i \in 1..ROOT_HISTORY_SIZE |-> 0], current_index |-> 0, pool |-> sp]

deposit_shielded_post_index(L, c) ==
    LET sp == L.shielded[c.shielded_pool]
    IN  IF c.vault # sp.vault THEN Ret("InvalidShieldedAccount", L, <<>>)
        ELSE IF TokenMint[c.vault] # sp.mint THEN Ret("InvalidShieldedAccount", L, <<>>)
        ELSE IF TokenMint[c.user_token] # sp.mint
        THEN Ret("InvalidShieldedAccount", L, <<>>)
        ELSE
    LET moved == token_transfer(L.balance, c.user_token, c.vault, c.user, c.amount)
    IN  IF ~moved.ok THEN Ret("TokenError", L, <<>>) ELSE
    LET L1 == [L EXCEPT !.balance = moved.bal]
        next == checked_add(sp.next_index, 1, U64_MAX)
    IN  IF next = None THEN Ret("MathOverflow", L1, <<>>)
        ELSE [res |-> "Ok",
              L |-> [L1 EXCEPT !.shielded[c.shielded_pool].next_index = next],
              cpi |-> <<>>,
              events |-> <<[pool |-> c.shielded_pool, index |-> next,
                            commitment |-> c.commitment, amount |-> c.amount]>>]

deposit_shielded(L, c) ==
    LET sp == L.shielded[c.shielded_pool]
    IN  IF c.vault # sp.vault THEN Ret("InvalidShieldedAccount", L, <<>>)
        ELSE IF TokenMint[c.vault] # sp.mint THEN Ret("InvalidShieldedAccount", L, <<>>)
        ELSE IF TokenMint[c.user_token] # sp.mint
        THEN Ret("InvalidShieldedAccount", L, <<>>)
        ELSE
    LET moved == token_transfer(L.balance, c.user_token, c.vault, c.user, c.amount)
    IN  IF ~moved.ok THEN Ret("TokenError", L, <<>>) ELSE
    LET L1 == [L EXCEPT !.balance = moved.bal]
        index == sp.next_index
        next == checked_add(sp.next_index, 1, U64_MAX)
    IN  IF next = None THEN Ret("MathOverflow", L1, <<>>)
        ELSE [res |-> "Ok",
              L |-> [L1 EXCEPT !.shielded[c.shielded_pool].next_index = next],
              cpi |-> <<>>,
              events |-> <<[pool |-> c.shielded_pool, index |-> index,
                            commitment |-> c.commitment, amount |-> c.amount]>>]

update_shielded_root_any_signer(L, c) ==
    LET sp == L.shielded[c.shielded_pool]
        hist == L.history[c.root_history]
    IN  IF sp.root_history # c.root_history
        THEN Ret("InvalidShieldedAccount", L, <<>>)
        ELSE IF hist.pool # c.shielded_pool THEN Ret("InvalidShieldedAccount", L, <<>>)
        ELSE IF c.included_leaves # sp.next_index THEN Ret("InvalidStateRoot", L, <<>>)
        ELSE Ret("Ok",
                 [L EXCEPT !.shielded[c.shielded_pool].current_root = c.new_root,
                           !.history[c.root_history] = append_root(hist, c.new_root)],
                 <<>>)

update_shielded_root_any_leaves(L, c) ==
    LET sp == L.shielded[c.shielded_pool]
        hist == L.history[c.root_history]
    IN  IF sp.authority # c.authority THEN Ret("InvalidShieldedAccount", L, <<>>)
        ELSE IF sp.root_history # c.root_history
        THEN Ret("InvalidShieldedAccount", L, <<>>)
        ELSE IF hist.pool # c.shielded_pool THEN Ret("InvalidShieldedAccount", L, <<>>)
        ELSE Ret("Ok",
                 [L EXCEPT !.shielded[c.shielded_pool].current_root = c.new_root,
                           !.history[c.root_history] = append_root(hist, c.new_root)],
                 <<>>)

update_shielded_root_no_append(L, c) ==
    LET sp == L.shielded[c.shielded_pool]
        hist == L.history[c.root_history]
    IN  IF sp.authority # c.authority THEN Ret("InvalidShieldedAccount", L, <<>>)
        ELSE IF sp.root_history # c.root_history
        THEN Ret("InvalidShieldedAccount", L, <<>>)
        ELSE IF hist.pool # c.shielded_pool THEN Ret("InvalidShieldedAccount", L, <<>>)
        ELSE IF c.included_leaves # sp.next_index THEN Ret("InvalidStateRoot", L, <<>>)
        ELSE Ret("Ok",
                 [L EXCEPT !.shielded[c.shielded_pool].current_root = c.new_root],
                 <<>>)

update_shielded_root(L, c) ==
    LET sp == L.shielded[c.shielded_pool]
        hist == L.history[c.root_history]
    IN  IF sp.authority # c.authority THEN Ret("InvalidShieldedAccount", L, <<>>)
        ELSE IF sp.root_history # c.root_history
        THEN Ret("InvalidShieldedAccount", L, <<>>)
        ELSE IF hist.pool # c.shielded_pool THEN Ret("InvalidShieldedAccount", L, <<>>)
        ELSE IF c.included_leaves # sp.next_index THEN Ret("InvalidStateRoot", L, <<>>)
        ELSE Ret("Ok",
                 [L EXCEPT !.shielded[c.shielded_pool].current_root = c.new_root,
                           !.history[c.root_history] = append_root(hist, c.new_root)],
                 <<>>)

-----------------------------------------------------------------------------
(* The public swap helpers (instructions/swap.rs), behind the account       *)
(* constraints of contexts.rs.                                              *)

\* #[account(constraint = ...)] of ZKSwap / ZKSwapReverse / AddLiquidity.
swap_constraints(p, c) ==
    /\ TokenMint[c.user_token_a] = p.token_a_mint
    /\ TokenOwner[c.user_token_a] = c.user
    /\ TokenMint[c.user_token_b] = p.token_b_mint
    /\ TokenOwner[c.user_token_b] = c.user
    /\ TokenMint[c.token_a_reserve] = p.token_a_mint
    /\ TokenMint[c.token_b_reserve] = p.token_b_mint

execute_swap_k_before_add(L, user_token_in, user_token_out, reserve_in, reserve_out, user, amount_in, min_out, direction) ==
    LET p == L.pool
        reserve_in_amount == IF direction = "AToB" THEN p.token_a_reserve
                                                   ELSE p.token_b_reserve
        reserve_out_amount == IF direction = "AToB" THEN p.token_b_reserve
                                                    ELSE p.token_a_reserve
        amount_out == get_amount_out(amount_in, reserve_in_amount, reserve_out_amount)
    IN  IF amount_out.res # "Ok" THEN [res |-> amount_out.res, L |-> L]
        ELSE IF ~(amount_out.out >= min_out) THEN [res |-> "SlippageExceeded", L |-> L]
        ELSE
    LET moved == token_transfer(L.balance, user_token_in, reserve_in, user, amount_in)
    IN  IF ~moved.ok THEN [res |-> "TokenError", L |-> L] ELSE
    LET L1 == [L EXCEPT !.balance = moved.bal]
        paid == token_transfer(L1.balance, reserve_out, user_token_out, AMM_POOL,
                               amount_out.out)
    IN  IF ~paid.ok THEN [res |-> "TokenError", L |-> L1] ELSE
    LET L2 == [L1 EXCEPT !.balance = paid.bal]
        fee == calculate_fee(amount_in)
    IN  IF fee.res # "Ok" THEN [res |-> fee.res, L |-> L2] ELSE
    LET added == checked_add(reserve_in_amount, amount_in, U64_MAX)
    IN  IF added = None THEN [res |-> "MathOverflow", L |-> L2] ELSE
    LET L3 == IF direction = "AToB" THEN [L2 EXCEPT !.pool.token_a_reserve = added]
                                    ELSE [L2 EXCEPT !.pool.token_b_reserve = added]
        left == checked_sub(reserve_out_amount, amount_out.out)
    IN  IF left = None THEN [res |-> "MathOverflow", L |-> L3] ELSE
    LET L4 == IF direction = "AToB" THEN [L3 EXCEPT !.pool.token_b_reserve = left]
                                    ELSE [L3 EXCEPT !.pool.token_a_reserve = left]
        fees == checked_add(IF direction = "AToB" THEN p.total_fees_a
                                                  ELSE p.total_fees_b,
                            fee.out, U64_MAX)
    IN  IF fees = None THEN [res |-> "MathOverflow", L |-> L4]
        ELSE [res |-> "Ok",
              L |-> IF direction = "AToB"
                    THEN [L4 EXCEPT !.pool.total_fees_a = fees,
                                    !.pool.k = reserve_in_amount * left]
                    ELSE [L4 EXCEPT !.pool.total_fees_b = fees,
                                    !.pool.k = reserve_in_amount * left]]

execute_swap(L, user_token_in, user_token_out, reserve_in, reserve_out, user, amount_in, min_out, direction) ==
    LET p == L.pool
        reserve_in_amount == IF direction = "AToB" THEN p.token_a_reserve
                                                   ELSE p.token_b_reserve
        reserve_out_amount == IF direction = "AToB" THEN p.token_b_reserve
                                                    ELSE p.token_a_reserve
        amount_out == get_amount_out(amount_in, reserve_in_amount, reserve_out_amount)
    IN  IF amount_out.res # "Ok" THEN [res |-> amount_out.res, L |-> L]
        ELSE IF ~(amount_out.out >= min_out) THEN [res |-> "SlippageExceeded", L |-> L]
        ELSE
    LET moved == token_transfer(L.balance, user_token_in, reserve_in, user, amount_in)
    IN  IF ~moved.ok THEN [res |-> "TokenError", L |-> L] ELSE
    LET L1 == [L EXCEPT !.balance = moved.bal]
        paid == token_transfer(L1.balance, reserve_out, user_token_out, AMM_POOL,
                               amount_out.out)
    IN  IF ~paid.ok THEN [res |-> "TokenError", L |-> L1] ELSE
    LET L2 == [L1 EXCEPT !.balance = paid.bal]
        fee == calculate_fee(amount_in)
    IN  IF fee.res # "Ok" THEN [res |-> fee.res, L |-> L2] ELSE
    LET added == checked_add(reserve_in_amount, amount_in, U64_MAX)
    IN  IF added = None THEN [res |-> "MathOverflow", L |-> L2] ELSE
    LET L3 == IF direction = "AToB" THEN [L2 EXCEPT !.pool.token_a_reserve = added]
                                    ELSE [L2 EXCEPT !.pool.token_b_reserve = added]
        left == checked_sub(reserve_out_amount, amount_out.out)
    IN  IF left = None THEN [res |-> "MathOverflow", L |-> L3] ELSE
    LET L4 == IF direction = "AToB" THEN [L3 EXCEPT !.pool.token_b_reserve = left]
                                    ELSE [L3 EXCEPT !.pool.token_a_reserve = left]
        fees == checked_add(IF direction = "AToB" THEN p.total_fees_a
                                                  ELSE p.total_fees_b,
                            fee.out, U64_MAX)
    IN  IF fees = None THEN [res |-> "MathOverflow", L |-> L4]
        ELSE [res |-> "Ok",
              L |-> IF direction = "AToB" THEN [L4 EXCEPT !.pool.total_fees_a = fees]
                                          ELSE [L4 EXCEPT !.pool.total_fees_b = fees]]

zk_swap(L, c) ==
    LET v == verify_zk_proof(c.verifier_program, c.proof, c.public_inputs, c.accepts)
    IN  IF v.res # "Ok" THEN Ret(v.res, L, v.cpi) ELSE
    LET e == execute_swap(L, c.user_token_a, c.user_token_b, c.token_a_reserve,
                          c.token_b_reserve, c.user, c.amount_in, c.min_out, "AToB")
    IN  Ret(e.res, e.L, v.cpi)

zk_swap_reverse(L, c) ==
    LET v == verify_zk_proof(c.verifier_program, c.proof, c.public_inputs, c.accepts)
    IN  IF v.res # "Ok" THEN Ret(v.res, L, v.cpi) ELSE
    LET e == execute_swap(L, c.user_token_b, c.user_token_a, c.token_b_reserve,
                          c.token_a_reserve, c.user, c.amount_in, c.min_out, "BToA")
    IN  Ret(e.res, e.L, v.cpi)

-----------------------------------------------------------------------------
(* The monolithic entry points (lib.rs).  lib.rs has its own copy of        *)
(* get_amount_out, the same as the one of math.rs.                          *)

create_pool(init_a, init_b, user) ==
    LET k == checked_mul(init_a, init_b, U128_MAX)
    IN  [res |-> IF k = None THEN "MathOverflow" ELSE "Ok",
         pool |-> [token_a_mint |-> "mint_a", token_b_mint |-> "mint_b",
                   token_a_reserve |-> init_a, token_b_reserve |-> init_b,
                   k |-> k, authority |-> user,
                   total_fees_a |-> 0, total_fees_b |-> 0]]

add_liquidity(L, c) ==
    LET moved_a == token_transfer(L.balance, c.user_token_a, c.token_a_reserve,
                                  c.user, c.amount_a)
    IN  IF ~moved_a.ok THEN Ret("TokenError", L, <<>>) ELSE
    LET moved_b == token_transfer(moved_a.bal, c.user_token_b, c.token_b_reserve,
                                  c.user, c.amount_b)
        L1 == [L EXCEPT !.balance = moved_a.bal]
    IN  IF ~moved_b.ok THEN Ret("TokenError", L1, <<>>) ELSE
    LET L2 == [L EXCEPT !.balance = moved_b.bal]
        ra == checked_add(L.pool.token_a_reserve, c.amount_a, U64_MAX)
    IN  IF ra = None THEN Ret("MathOverflow", L2, <<>>) ELSE
    LET L3 == [L2 EXCEPT !.pool.token_a_reserve = ra]
        rb == checked_add(L.pool.token_b_reserve, c.amount_b, U64_MAX)
    IN  IF rb = None THEN Ret("MathOverflow", L3, <<>>) ELSE
    LET L4 == [L3 EXCEPT !.pool.token_b_reserve = rb]
        k == checked_mul(ra, rb, U128_MAX)
    IN  IF k = None THEN Ret("MathOverflow", L4, <<>>)
        ELSE Ret("Ok", [L4 EXCEPT !.pool.k = k], <<>>)

\* The tail shared by the four lib.rs swaps: the reserve update, and the
\* fee tracking of zk_swap / zk_swap_reverse (track_fee).
lib_update_pool(L, a_to_b, amount_in, amount_out, track_fee) ==
    LET p == L.pool
        r_in == IF a_to_b THEN p.token_a_reserve ELSE p.token_b_reserve
        r_out == IF a_to_b THEN p.token_b_reserve ELSE p.token_a_reserve
        added == checked_add(r_in, amount_in, U64_MAX)
    IN  IF added = None THEN [res |-> "MathOverflow", L |-> L] ELSE
    LET L1 == IF a_to_b THEN [L EXCEPT !.pool.token_a_reserve = added]
                        ELSE [L EXCEPT !.pool.token_b_reserve = added]
        left == checked_sub(r_out, amount_out)
    IN  IF left = None THEN [res |-> "MathOverflow", L |-> L1] ELSE
    LET L2 == IF a_to_b THEN [L1 EXCEPT !.pool.token_b_reserve = left]
                        ELSE [L1 EXCEPT !.pool.token_a_reserve = left]
        tripled == checked_mul(amount_in, 3, U64_MAX)
        fee == (IF tripled = None THEN 0 ELSE tripled) \div 1000
        fees == checked_add(IF a_to_b THEN p.total_fees_a ELSE p.total_fees_b,
                            fee, U64_MAX)
    IN  IF ~track_fee THEN [res |-> "Ok", L |-> L2]
        ELSE IF fees = None THEN [res |-> "MathOverflow", L |-> L2]
        ELSE [res |-> "Ok",
              L |-> IF a_to_b THEN [L2 EXCEPT !.pool.total_fees_a = fees]
                              ELSE [L2 EXCEPT !.pool.total_fees_b = fees]]

\* zk_swap (a_to_b) and zk_swap_reverse of lib.rs.
lib_zk_swap(L, c, a_to_b) ==
    LET v == lib_verify_zk_proof(c.verifier_program, c.proof, c.public_inputs, c.accepts)
    IN  IF v.res # "Ok" THEN Ret(v.res, L, v.cpi) ELSE
    LET p == L.pool
        user_in == IF a_to_b THEN c.user_token_a ELSE c.user_token_b
        user_out == IF a_to_b THEN c.user_token_b ELSE c.user_token_a
        res_in == IF a_to_b THEN c.token_a_reserve ELSE c.token_b_reserve
        res_out == IF a_to_b THEN c.token_b_reserve ELSE c.token_a_reserve
        amount_out == IF a_to_b
                      THEN get_amount_out(c.amount_in, p.token_a_reserve, p.token_b_reserve)
                      ELSE get_amount_out(c.amount_in, p.token_b_reserve, p.token_a_reserve)
    IN  IF amount_out.res # "Ok" THEN Ret(amount_out.res, L, v.cpi)
        ELSE IF ~(amount_out.out >= c.min_out) THEN Ret("SlippageExceeded", L, v.cpi)
        ELSE
    LET moved == token_transfer(L.balance, user_in, res_in, c.user, c.amount_in)
    IN  IF ~moved.ok THEN Ret("TokenError", L, v.cpi) ELSE
    LET L1 == [L EXCEPT !.balance = moved.bal]
        paid == token_transfer(L1.balance, res_out, user_out, AMM_POOL, amount_out.out)
    IN  IF ~paid.ok THEN Ret("TokenError", L1, v.cpi) ELSE
    LET u == lib_update_pool([L1 EXCEPT !.balance = paid.bal], a_to_b, c.amount_in,
                             amount_out.out, TRUE)
    IN  Ret(u.res, u.L, v.cpi)

\* zk_swap_private (a_to_b) and zk_swap_private_reverse of lib.rs.
lib_zk_swap_private(L, c, a_to_b) ==
    LET v == lib_verify_zk_proof(c.verifier_program, c.proof, c.public_inputs, c.accepts)
    IN  IF v.res # "Ok" THEN Ret(v.res, L, v.cpi)
        ELSE IF ~c.light_system_ok THEN Ret(ErrInvalidProof, L, v.cpi)
        ELSE IF c.compressed_inputs = 0 THEN Ret("ZeroAmount", L, v.cpi)
        ELSE
    LET p == L.pool
        user_in == IF a_to_b THEN c.user_token_a ELSE c.user_token_b
        user_out == IF a_to_b THEN c.user_token_b ELSE c.user_token_a
        res_in == IF a_to_b THEN c.token_a_reserve ELSE c.token_b_reserve
        res_out == IF a_to_b THEN c.token_b_reserve ELSE c.token_a_reserve
        moved == token_transfer(L.balance, user_in, res_in, c.user, c.amount_in)
    IN  IF ~moved.ok THEN Ret("TokenError", L, v.cpi) ELSE
    LET L1 == [L EXCEPT !.balance = moved.bal]
        amount_out == IF a_to_b
                      THEN get_amount_out(c.amount_in, p.token_a_reserve, p.token_b_reserve)
                      ELSE get_amount_out(c.amount_in, p.token_b_reserve, p.token_a_reserve)
    IN  IF amount_out.res # "Ok" THEN Ret(amount_out.res, L1, v.cpi)
        ELSE IF ~(amount_out.out >= c.min_out) THEN Ret("SlippageExceeded", L1, v.cpi)
        ELSE
    LET paid == token_transfer(L1.balance, res_out, user_out, AMM_POOL, amount_out.out)
    IN  IF ~paid.ok THEN Ret("TokenError", L1, v.cpi) ELSE
    LET u == lib_update_pool([L1 EXCEPT !.balance = paid.bal], a_to_b, c.amount_in,
                             amount_out.out, FALSE)
    IN  Ret(u.res, u.L, v.cpi)

-----------------------------------------------------------------------------
(* The calls of the model.  A shielded call carries its public inputs as a  *)
(* description pi of what the prover encoded; PublicInputs(pi) is the byte  *)
(* string.  The client's encoding is written here independently of the     *)
(* program's own parsing.                                                   *)

WITNESS_HEADER == <<0, 0, 0, 6, 0, 0, 0, 0, 0, 0, 0, 6>>

\* An address as a field: a big-endian 128-bit value, the first half of the key.
AddressField(id) == Zeros(16) \o Zeros(15) \o <<KeyHalves[id][1]>>

\* An amount as a field; `amount_hi` sets a byte above the low 64 bits.
AmountField(amount, amount_hi) ==
    (IF amount_hi THEN <<1>> \o Zeros(23) ELSE Zeros(24))
    \o Zeros(6) \o <<(amount \div 256) % 256, amount % 256>>

PublicInputs(pi) ==
    LET fields == Bytes32(pi.root) \o Bytes32(pi.nul)
                  \o AmountField(pi.amount, pi.amount_hi)
                  \o AddressField(pi.recipient) \o AddressField(pi.mint)
                  \o AddressField(pi.pool)
    IN  CASE pi.layout = "plain" -> fields
          [] pi.layout = "header" -> WITNESS_HEADER \o fields
          [] pi.layout = "short" -> SubSeq(fields, 1, Len(fields) - 1)

ProofBytes == <<7, 7>>

AMOUNT == 2

\* The root a client proves against: the pool's current root, or the first
\* root its authority published (root 1), which a fresh history does not
\* hold yet and a full one has evicted.
Roots(sp) == {shielded[sp].current_root, 1}

MintOf(sp) == IF sp = "sp_a" THEN "mint_a" ELSE "mint_b"

OtherPool(sp) == IF sp = "sp_a" THEN "sp_b" ELSE "sp_a"

OtherHash(h) == IF h = 1 THEN 2 ELSE 1

UserToken(mint) == IF mint = "mint_a" THEN "user_a" ELSE "user_b"

AttackerToken(mint) == IF mint = "mint_a" THEN "attacker_a" ELSE "attacker_b"

ReserveToken(mint) == IF mint = "mint_a" THEN "reserve_a" ELSE "reserve_b"

OtherMint(mint) == IF mint = "mint_a" THEN "mint_b" ELSE "mint_a"

\* A withdrawal a relayer submits for the user's note h of pool sp.
GoodWithdraw(sp, h, root) ==
    [shielded_pool |-> sp, root_history |-> RootHistoryPda(sp),
     remaining |-> <<VaultOf(sp), UserToken(MintOf(sp))>>,
     verifier_program |-> VERIFIER, accepts |-> TRUE,
     nullifier_account |-> NullifierPda(sp, h), rent_paid |-> TRUE,
     amount |-> AMOUNT, nullifier_hash |-> h, proof |-> ProofBytes,
     pi |-> [layout |-> "plain", root |-> root, nul |-> h, amount |-> AMOUNT,
             amount_hi |-> FALSE, recipient |-> UserToken(MintOf(sp)),
             mint |-> MintOf(sp), pool |-> sp]]

\* The same call with one binding of fields 1 to 5 broken.
WithdrawBindingFaults(g) ==
    LET sp == g.shielded_pool
        m == MintOf(sp)
    IN  {[g EXCEPT !.remaining = <<VaultOf(sp), AttackerToken(m)>>],
         [g EXCEPT !.amount = AMOUNT - 1],
         [g EXCEPT !.nullifier_hash = OtherHash(@)],
         [g EXCEPT !.pi.amount_hi = TRUE],
         [g EXCEPT !.pi.recipient = AttackerToken(m)],
         [g EXCEPT !.pi.mint = OtherMint(m)],
         [g EXCEPT !.pi.pool = OtherPool(sp)]}

\* The same call with one other thing changed.
WithdrawFaults(g) ==
    LET sp == g.shielded_pool
        m == MintOf(sp)
    IN  {[g EXCEPT !.verifier_program = SYSTEM_PROGRAM],
         [g EXCEPT !.accepts = FALSE],
         [g EXCEPT !.remaining = <<VaultOf(sp)>>],
         [g EXCEPT !.remaining = <<VaultOf(sp), UserToken(OtherMint(m))>>],
         [g EXCEPT !.remaining = <<VaultOf(OtherPool(sp)), UserToken(m)>>],
         [g EXCEPT !.root_history = RootHistoryPda(OtherPool(sp))],
         [g EXCEPT !.nullifier_account = NullifierPda(sp, OtherHash(g.nullifier_hash))],
         [g EXCEPT !.nullifier_account = NullifierPda(OtherPool(sp), g.nullifier_hash)],
         [g EXCEPT !.rent_paid = FALSE],
         [g EXCEPT !.pi.layout = "header"],
         [g EXCEPT !.pi.layout = "short"]}

\* The faults are made on the call for note 1 of pool A against the current
\* root; one call is wrong twice, in its amount and in its root, and one
\* names the vault itself as the recipient, in the accounts and in the proof.
WithdrawCalls ==
    UNION {{GoodWithdraw(sp, h, root) : h \in Hashes, root \in Roots(sp)} :
           sp \in ShieldedPools}
    \cup WithdrawBindingFaults(GoodWithdraw("sp_a", 1, shielded["sp_a"].current_root))
    \cup WithdrawFaults(GoodWithdraw("sp_a", 1, shielded["sp_a"].current_root))
    \cup {[GoodWithdraw("sp_a", 1, 1) EXCEPT !.amount = AMOUNT - 1]}
    \cup {[GoodWithdraw("sp_a", 1, shielded["sp_a"].current_root) EXCEPT
               !.remaining = <<VaultOf("sp_a"), VaultOf("sp_a")>>,
               !.pi.recipient = VaultOf("sp_a")]}

\* A shielded swap a relayer submits for the user's note h.
GoodSwapPrivate(is_a_to_b, h, root) ==
    LET m_in == IF is_a_to_b THEN "mint_a" ELSE "mint_b"
        m_out == OtherMint(m_in)
        sp == ShieldedPoolPda(m_in)
    IN  [input_shielded_pool |-> sp, input_root_history |-> RootHistoryPda(sp),
         remaining |-> <<VaultOf(sp), ReserveToken(m_in), ReserveToken(m_out),
                         UserToken(m_out)>>,
         verifier_program |-> VERIFIER, accepts |-> TRUE,
         nullifier_account |-> NullifierPda(sp, h), rent_paid |-> TRUE,
         amount_in |-> AMOUNT, min_out |-> 0, is_a_to_b |-> is_a_to_b,
         nullifier_hash |-> h, proof |-> ProofBytes,
         pi |-> [layout |-> "plain", root |-> root, nul |-> h, amount |-> AMOUNT,
                 amount_hi |-> FALSE, recipient |-> UserToken(m_out),
                 mint |-> m_in, pool |-> sp]]

\* The same call with one binding of fields 1 to 5 broken.
SwapPrivateBindingFaults(g) ==
    LET sp == g.input_shielded_pool
        m_in == MintOf(sp)
        m_out == OtherMint(m_in)
    IN  {[g EXCEPT !.remaining[4] = AttackerToken(m_out)],
         [g EXCEPT !.input_shielded_pool = OtherPool(sp)],
         [g EXCEPT !.amount_in = AMOUNT - 1],
         [g EXCEPT !.is_a_to_b = ~@],
         [g EXCEPT !.nullifier_hash = OtherHash(@)],
         [g EXCEPT !.pi.amount_hi = TRUE],
         [g EXCEPT !.pi.recipient = AttackerToken(m_out)],
         [g EXCEPT !.pi.mint = m_out],
         [g EXCEPT !.pi.pool = OtherPool(sp)]}

\* The same call with one other thing changed.
SwapPrivateFaults(g) ==
    LET sp == g.input_shielded_pool
        m_in == MintOf(sp)
        m_out == OtherMint(m_in)
        r == g.remaining
    IN  {[g EXCEPT !.verifier_program = SYSTEM_PROGRAM],
         [g EXCEPT !.accepts = FALSE],
         [g EXCEPT !.remaining = SubSeq(r, 1, 3)],
         [g EXCEPT !.remaining[1] = VaultOf(OtherPool(sp))],
         [g EXCEPT !.remaining[2] = AttackerToken(m_in)],
         [g EXCEPT !.remaining[2] = ReserveToken(m_out)],
         [g EXCEPT !.remaining[2] = VaultOf(sp)],
         [g EXCEPT !.remaining[3] = AttackerToken(m_out)],
         [g EXCEPT !.remaining[3] = ReserveToken(m_in)],
         [g EXCEPT !.remaining[4] = UserToken(m_in)],
         [g EXCEPT !.input_root_history = RootHistoryPda(OtherPool(sp))],
         [g EXCEPT !.nullifier_account = NullifierPda(sp, OtherHash(g.nullifier_hash))],
         [g EXCEPT !.rent_paid = FALSE],
         [g EXCEPT !.amount_in = 0, !.pi.amount = 0],
         [g EXCEPT !.min_out = U64_MAX],
         [g EXCEPT !.pi.layout = "header"],
         [g EXCEPT !.pi.layout = "short"]}

\* The faults are made on the swap of note 1 of pool A against the current
\* root; one call is wrong twice, in its amount and in its root.
SwapPrivateCalls ==
    UNION {{GoodSwapPrivate(d, h, root) :
               h \in Hashes, root \in Roots(IF d THEN "sp_a" ELSE "sp_b")} :
           d \in BOOLEAN}
    \cup SwapPrivateBindingFaults(
             GoodSwapPrivate(TRUE, 1, shielded["sp_a"].current_root))
    \cup SwapPrivateFaults(GoodSwapPrivate(TRUE, 1, shielded["sp_a"].current_root))
    \cup {[GoodSwapPrivate(TRUE, 1, 1) EXCEPT !.amount_in = AMOUNT - 1]}

\* One deposit funds two notes of AMOUNT.
DepositAmount == 2 * AMOUNT

\* A deposit of the user's tokens, and the same with a wrong account.
DepositCalls ==
    LET good(sp) == [shielded_pool |-> sp, vault |-> VaultOf(sp),
                     user_token |-> UserToken(MintOf(sp)), user |-> "user",
                     amount |-> DepositAmount, commitment |-> 9]
    IN  {good(sp) : sp \in ShieldedPools}
        \cup {[good("sp_a") EXCEPT !.vault = VaultOf("sp_b")],
              [good("sp_a") EXCEPT !.user_token = UserToken("mint_b")],
              [good("sp_a") EXCEPT !.user = "attacker"]}

MaxDeposits == 1

MaxRootUpdates == 3

\* A root update; the n-th root the authority publishes for a pool is n.
UpdateRootCalls(hist) ==
    LET good(sp, leaves) ==
            [shielded_pool |-> sp, root_history |-> RootHistoryPda(sp),
             authority |-> "authority",
             new_root |-> hist[RootHistoryPda(sp)].current_index + 1,
             included_leaves |-> leaves]
    IN  {good(sp, leaves) : sp \in ShieldedPools, leaves \in 0..MaxDeposits}
        \cup {[good("sp_a", leaves) EXCEPT !.authority = "attacker"] : leaves \in 0..MaxDeposits}
        \cup {[good("sp_a", leaves) EXCEPT !.root_history = "rh_b"] : leaves \in 0..MaxDeposits}

\* A public swap of the user's tokens, and the same with one thing changed.
GoodPublicSwap ==
    [user |-> "trader", user_token_a |-> "trader_a", user_token_b |-> "trader_b",
     token_a_reserve |-> "reserve_a", token_b_reserve |-> "reserve_b",
     verifier_program |-> VERIFIER, accepts |-> TRUE,
     amount_in |-> AMOUNT, min_out |-> 0,
     proof |-> ProofBytes, public_inputs |-> <<1, 2, 3>>,
     light_system_ok |-> TRUE, compressed_inputs |-> 1]

PublicSwapCalls ==
    {GoodPublicSwap,
     [GoodPublicSwap EXCEPT !.verifier_program = SYSTEM_PROGRAM],
     [GoodPublicSwap EXCEPT !.accepts = FALSE],
     [GoodPublicSwap EXCEPT !.min_out = U64_MAX],
     [GoodPublicSwap EXCEPT !.amount_in = 0]}

PrivateSwapCalls ==
    PublicSwapCalls
    \cup {[GoodPublicSwap EXCEPT !.light_system_ok = FALSE],
          [GoodPublicSwap EXCEPT !.compressed_inputs = 0]}

AddLiquidityCalls ==
    {[user |-> "trader", user_token_a |-> "trader_a", user_token_b |-> "trader_b",
      token_a_reserve |-> "reserve_a", token_b_reserve |-> "reserve_b",
      amount_a |-> AMOUNT, amount_b |-> b] : b \in {0, AMOUNT}}

-----------------------------------------------------------------------------
(* The state machine.                                                       *)

RESERVE == 4

\* The user holds the tokens of one deposit, in the mint `funded`.
InitialBalance(funded) ==
    [vault_a |-> 0, vault_b |-> 0, reserve_a |-> RESERVE, reserve_b |-> RESERVE,
     user_a |-> IF funded = "mint_a" THEN DepositAmount ELSE 0,
     user_b |-> IF funded = "mint_b" THEN DepositAmount ELSE 0,
     trader_a |-> AMOUNT, trader_b |-> 0, attacker_a |-> 0, attacker_b |-> 0]

\* The (init_a, init_b) a pool is created with; create_pool checks neither.
PoolInits == {<<RESERVE, RESERVE>>, <<0, RESERVE>>, <<U64_MAX, RESERVE>>}

NoCall ==
    [op |-> "none", c |-> <<>>, res |-> "Ok", cpi |-> <<>>, events |-> <<>>,
     wrote |-> {}]

Init ==
    /\ nullifier = [a \in NullifierPdas |-> NoAccount]
    /\ balance \in {InitialBalance(m) : m \in Mints}
    /\ \E i \in PoolInits :
           /\ create_pool(i[1], i[2], "user").res = "Ok"
           /\ pool = create_pool(i[1], i[2], "user").pool
    /\ shielded = [sp \in ShieldedPools |->
                      initialize_shielded_pool(MintOf(sp), VaultOf(sp), "authority")]
    /\ history = [rh \in Histories |->
                     initialize_shielded_root_history(
                         IF rh = "rh_a" THEN "sp_a" ELSE "sp_b")]
    /\ last = NoCall

\* The call as the handler receives it: the public inputs as bytes.
Wire(c) ==
    [f \in (DOMAIN c \ {"pi"}) \cup {"public_inputs"} |->
        IF f = "public_inputs" THEN PublicInputs(c.pi) ELSE c[f]]

Committed == last.res = "Ok"

\* The parts of the ledger a handler had written when it returned.
Wrote(L) == {v \in DOMAIN L : L[v] # Ledger[v]}

\* One instruction is one transaction: the ledger a handler wrote is kept
\* only when the handler returned Ok.  A failed transaction leaves the
\* ledger as it found it, so a behaviour is followed up to its first failed
\* call: what follows a failed call follows the committed state before it.
Commit(op, c, r) ==
    \E ret \in {r} :
           /\ nullifier' = IF ret.res = "Ok" THEN ret.L.nullifier ELSE nullifier
           /\ balance' = IF ret.res = "Ok" THEN ret.L.balance ELSE balance
           /\ pool' = IF ret.res = "Ok" THEN ret.L.pool ELSE pool
           /\ shielded' = IF ret.res = "Ok" THEN ret.L.shielded ELSE shielded
           /\ history' = IF ret.res = "Ok" THEN ret.L.history ELSE history
           /\ last' = [op |-> op, c |-> c, res |-> ret.res, cpi |-> ret.cpi,
                       events |-> IF ret.res = "Ok" THEN ret.events ELSE <<>>,
                       wrote |-> Wrote(ret.L)]

WithdrawShielded ==
    /\ Committed
    /\ \E c \in WithdrawCalls :
           Commit("withdraw_shielded", c, withdraw_shielded(Ledger, Wire(c)))

SwapPrivate ==
    /\ Committed
    /\ \E c \in SwapPrivateCalls :
           Commit("swap_private", c, swap_private(Ledger, Wire(c)))

DepositShielded ==
    /\ Committed
    /\ \E c \in DepositCalls :
           /\ shielded["sp_a"].next_index + shielded["sp_b"].next_index < MaxDeposits
           /\ Commit("deposit_shielded", c, deposit_shielded(Ledger, c))

UpdateShieldedRoot ==
    /\ Committed
    /\ \E c \in UpdateRootCalls(history) :
           /\ history["rh_a"].current_index + history["rh_b"].current_index
                  < MaxRootUpdates
           /\ Commit("update_shielded_root", c, update_shielded_root(Ledger, c))

ConstraintError(L) == Ret("ConstraintRaw", L, <<>>)

ZkSwap ==
    /\ Committed
    /\ \E c \in PublicSwapCalls :
           Commit("zk_swap", c,
                  IF swap_constraints(pool, c) THEN zk_swap(Ledger, c)
                  ELSE ConstraintError(Ledger))

ZkSwapReverse ==
    /\ Committed
    /\ \E c \in PublicSwapCalls :
           Commit("zk_swap_reverse", c,
                  IF swap_constraints(pool, c) THEN zk_swap_reverse(Ledger, c)
                  ELSE ConstraintError(Ledger))

LibZkSwap ==
    /\ Committed
    /\ \E c \in PublicSwapCalls :
           Commit("lib_zk_swap", c,
                  IF swap_constraints(pool, c) THEN lib_zk_swap(Ledger, c, TRUE)
                  ELSE ConstraintError(Ledger))

LibZkSwapReverse ==
    /\ Committed
    /\ \E c \in PublicSwapCalls :
           Commit("lib_zk_swap_reverse", c,
                  IF swap_constraints(pool, c) THEN lib_zk_swap(Ledger, c, FALSE)
                  ELSE ConstraintError(Ledger))

ZkSwapPrivate ==
    /\ Committed
    /\ \E c \in PrivateSwapCalls :
           Commit("zk_swap_private", c,
                  IF swap_constraints(pool, c) THEN lib_zk_swap_private(Ledger, c, TRUE)
                  ELSE ConstraintError(Ledger))

ZkSwapPrivateReverse ==
    /\ Committed
    /\ \E c \in PrivateSwapCalls :
           Commit("zk_swap_private_reverse", c,
                  IF swap_constraints(pool, c) THEN lib_zk_swap_private(Ledger, c, FALSE)
                  ELSE ConstraintError(Ledger))

AddLiquidity ==
    /\ Committed
    /\ \E c \in AddLiquidityCalls :
           Commit("add_liquidity", c,
                  IF swap_constraints(pool, c) THEN add_liquidity(Ledger, c)
                  ELSE ConstraintError(Ledger))

Next ==
    \/ WithdrawShielded
    \/ SwapPrivate
    \/ DepositShielded
    \/ UpdateShieldedRoot
    \/ ZkSwap
    \/ ZkSwapReverse
    \/ LibZkSwap
    \/ LibZkSwapReverse
    \/ ZkSwapPrivate
    \/ ZkSwapPrivateReverse
    \/ AddLiquidity

Spec == Init /\ [][Next]_vars

-----------------------------------------------------------------------------
(* The gateway on its own: verify_zk_proof applied to handles, proofs and   *)
(* public-input strings of every shape, with either answer of the verifier. *)

GatewayHandles == {SYSTEM_PROGRAM, VERIFIER, PROGRAM_ID}

GatewayProofs == {<<>>, <<7>>, ProofBytes}

GatewayInputs ==
    {<<>>, <<0>>, <<1, 2, 3>>, Zeros(FIELD_LEN),
     PublicInputs(GoodWithdraw("sp_a", 1, 0).pi),
     PublicInputs([GoodWithdraw("sp_a", 1, 0).pi EXCEPT !.layout = "header"])}

VerifyZkProof ==
    \E verifier_program \in GatewayHandles, proof \in GatewayProofs,
       public_inputs \in GatewayInputs, accepts \in BOOLEAN :
        LET r == verify_zk_proof(verifier_program, proof, public_inputs, accepts)
        IN  /\ last' = [op |-> "verify_zk_proof",
                        c |-> [verifier_program |-> verifier_program, proof |-> proof,
                               public_inputs |-> public_inputs, accepts |-> accepts],
                        res |-> r.res, cpi |-> r.cpi, events |-> <<>>, wrote |-> {}]
            /\ UNCHANGED ledgerVars

GatewaySpec == Init /\ [][VerifyZkProof]_vars

-----------------------------------------------------------------------------
(* The nullifier registry on its own: ensure_nullifier_account applied to   *)
(* every pool and hash, with the derived record or another one, by a payer  *)
(* that can or cannot fund the record.                                      *)

EnsureCalls ==
    [pool_key : ShieldedPools, nullifier_hash : Hashes,
     nullifier_info : NullifierPdas, rent_paid : BOOLEAN]

EnsureNullifierAccount ==
    \E c \in EnsureCalls :
        LET r == ensure_nullifier_account(nullifier, c.nullifier_info, c.rent_paid,
                                          c.pool_key, c.nullifier_hash)
        IN  /\ nullifier' = IF r.res = "Ok" THEN r.nul ELSE nullifier
            /\ last' = [op |-> "ensure_nullifier_account", c |-> c, res |-> r.res,
                        cpi |-> <<>>, events |-> <<>>, wrote |-> {}]
            /\ UNCHANGED <<balance, pool, shielded, history>>

RegistrySpec == Init /\ [][EnsureNullifierAccount]_vars

-----------------------------------------------------------------------------
(* The two root history ledgers on their own.  One fresh ShieldedRootHistory *)
(* and one fresh StateRootHistory receive the same sequence of roots, and   *)
(* are asked about every root; `appended` records the roots in the order    *)
(* they were appended.                                                      *)

MaxAppends == ROOT_HISTORY_SIZE + STATE_ROOT_HISTORY_SIZE

LedgerRoots == 0..(ROOT_HISTORY_SIZE + 1)

LedgerInit ==
    /\ nullifier = [a \in NullifierPdas |-> NoAccount]
    /\ balance = InitialBalance("mint_a")
    /\ pool = create_pool(RESERVE, RESERVE, "user").pool
    /\ shielded = [sp \in ShieldedPools |->
                      initialize_shielded_pool(MintOf(sp), VaultOf(sp), "authority")]
    /\ history = [shielded |-> initialize_shielded_root_history("sp_a"),
                  state |-> StateRootHistoryInit]
    /\ last = [op |-> "none", c |-> <<>>, res |-> "Ok", found |-> FALSE,
               appended |-> <<>>]

AppendRoot ==
    /\ Len(last.appended) < MaxAppends
    /\ \E root \in LedgerRoots :
           /\ history' = [shielded |-> append_root(history.shielded, root),
                          state |-> append(history.state, root)]
           /\ last' = [op |-> "append_root", c |-> [root |-> root], res |-> "Ok",
                       found |-> FALSE, appended |-> Append(last.appended, root)]
    /\ UNCHANGED <<nullifier, balance, pool, shielded>>

ContainsRoot ==
    /\ \E root \in LedgerRoots :
           last' = [op |-> "contains_root", c |-> [root |-> root], res |-> "Ok",
                    found |-> contains_root(history.shielded, Bytes32(root)),
                    appended |-> last.appended]
    /\ UNCHANGED <<nullifier, balance, pool, shielded, history>>

Contains ==
    /\ \E root \in LedgerRoots :
           last' = [op |-> "contains", c |-> [root |-> root], res |-> "Ok",
                    found |-> contains(history.state, Bytes32(root)),
                    appended |-> last.appended]
    /\ UNCHANGED <<nullifier, balance, pool, shielded, history>>

LedgerNext == AppendRoot \/ ContainsRoot \/ Contains

LedgerSpec == LedgerInit /\ [][LedgerNext]_vars

-----------------------------------------------------------------------------
(* The swaps on their own: a pool created with any pair of reserves up to   *)
(* MaxReserve, its reserve accounts holding what the pool records, and      *)
(* public and shielded swaps of every amount up to MaxSwapIn in both        *)
(* directions, one after another.                                           *)

MaxReserve == 3

MaxSwapIn == 2

SwapFunds == MaxSwapIn

AmmInit ==
    /\ nullifier = [a \in NullifierPdas |-> NoAccount]
    /\ \E ra, rb \in 1..MaxReserve :
           /\ balance = [vault_a |-> SwapFunds, vault_b |-> SwapFunds,
                         reserve_a |-> ra, reserve_b |-> rb,
                         user_a |-> 0, user_b |-> 0,
                         trader_a |-> SwapFunds, trader_b |-> 0,
                         attacker_a |-> 0, attacker_b |-> 0]
           /\ pool = create_pool(ra, rb, "user").pool
    /\ shielded = [sp \in ShieldedPools |->
                      initialize_shielded_pool(MintOf(sp), VaultOf(sp), "authority")]
    /\ history = [rh \in Histories |->
                     initialize_shielded_root_history(
                         IF rh = "rh_a" THEN "sp_a" ELSE "sp_b")]
    /\ last = NoCall

AmmPublicCalls ==
    {[GoodPublicSwap EXCEPT !.amount_in = a] : a \in 0..MaxSwapIn}

AmmPrivateCalls ==
    {[GoodSwapPrivate(d, 1, 0) EXCEPT !.amount_in = a, !.pi.amount = a] :
        d \in BOOLEAN, a \in 0..MaxSwapIn}

AmmZkSwap ==
    /\ Committed
    /\ \E c \in AmmPublicCalls :
           Commit("zk_swap", c,
                  IF swap_constraints(pool, c) THEN zk_swap(Ledger, c)
                  ELSE ConstraintError(Ledger))

AmmZkSwapReverse ==
    /\ Committed
    /\ \E c \in AmmPublicCalls :
           Commit("zk_swap_reverse", c,
                  IF swap_constraints(pool, c) THEN zk_swap_reverse(Ledger, c)
                  ELSE ConstraintError(Ledger))

AmmSwapPrivate ==
    /\ Committed
    /\ \E c \in AmmPrivateCalls :
           Commit("swap_private", c, swap_private(Ledger, Wire(c)))

AmmNext == AmmZkSwap \/ AmmZkSwapReverse \/ AmmSwapPrivate

AmmSpec == AmmInit /\ [][AmmNext]_vars

-----------------------------------------------------------------------------
(* The two functions of math.rs on their own, applied to amounts and        *)
(* reserves from both ends of the u64 range and around the products that    *)
(* no longer fit the u128 intermediates.  Each behaviour is one call.       *)

MaxMathIn == 8

MathAmounts == (0..MaxMathIn) \cup {32, 33, U64_MAX}

MathInit ==
    /\ nullifier = [a \in NullifierPdas |-> NoAccount]
    /\ balance = InitialBalance("mint_a")
    /\ pool = create_pool(RESERVE, RESERVE, "user").pool
    /\ shielded = [sp \in ShieldedPools |->
                      initialize_shielded_pool(MintOf(sp), VaultOf(sp), "authority")]
    /\ history = [rh \in Histories |->
                     initialize_shielded_root_history(
                         IF rh = "rh_a" THEN "sp_a" ELSE "sp_b")]
    /\ last = [op |-> "none", c |-> <<>>, res |-> "Ok", out |-> 0]

GetAmountOut ==
    /\ last.op = "none"
    /\ \E amount_in, reserve_in, reserve_out \in MathAmounts :
           LET q == get_amount_out(amount_in, reserve_in, reserve_out)
           IN  last' = [op |-> "get_amount_out",
                        c |-> [amount_in |-> amount_in, reserve_in |-> reserve_in,
                               reserve_out |-> reserve_out],
                        res |-> q.res, out |-> q.out]
    /\ UNCHANGED ledgerVars

CalculateFee ==
    /\ last.op = "none"
    /\ \E amount \in 0..U64_MAX :
           LET f == calculate_fee(amount)
           IN  last' = [op |-> "calculate_fee", c |-> [amount |-> amount],
                        res |-> f.res, out |-> f.out]
    /\ UNCHANGED ledgerVars

MathNext == GetAmountOut \/ CalculateFee

MathSpec == MathInit /\ [][MathNext]_vars

-----------------------------------------------------------------------------
(* The leaf counter: several small deposits into each shielded pool, among  *)
(* root updates, withdrawals and shielded swaps.                            *)

MaxLeaves == 2

LeafDepositCalls ==
    {[c EXCEPT !.amount = a] : c \in DepositCalls, a \in 0..1}

LeafDeposit ==
    /\ Committed
    /\ shielded["sp_a"].next_index + shielded["sp_b"].next_index < MaxLeaves
    /\ \E c \in LeafDepositCalls :
           Commit("deposit_shielded", c, deposit_shielded(Ledger, c))

LeafNext == LeafDeposit \/ UpdateShieldedRoot \/ WithdrawShielded \/ SwapPrivate

LeafSpec == Init /\ [][LeafNext]_vars

-----------------------------------------------------------------------------
(* The public swaps with the accounts of their contexts: ZKSwap and         *)
(* ZKSwapReverse carry a StateRootHistory account (`history`), and the      *)
(* proof's public inputs begin with the root it was made against.           *)

\* The ledgers a caller can pass: a fresh one, and it after one to three appends
\* of the roots 1, 2, 3.
RECURSIVE StateHistoryAfter(_)
StateHistoryAfter(n) ==
    IF n = 0 THEN StateRootHistoryInit ELSE append(StateHistoryAfter(n - 1), n)

MaxStateRoots == 3

StateHistories == {StateHistoryAfter(n) : n \in 0..MaxStateRoots}

RootedSwapCalls ==
    {[f \in DOMAIN c \cup {"history", "root"} |->
         IF f = "history" THEN h
         ELSE IF f = "root" THEN root
         ELSE IF f = "public_inputs" THEN Bytes32(root) \o c.public_inputs
         ELSE c[f]] :
        c \in PublicSwapCalls, h \in StateHistories, root \in 0..(MaxStateRoots + 1)}

RootedZkSwap ==
    /\ Committed
    /\ \E c \in RootedSwapCalls :
           Commit("zk_swap", c,
                  IF swap_constraints(pool, c) THEN zk_swap(Ledger, c)
                  ELSE ConstraintError(Ledger))

RootedZkSwapReverse ==
    /\ Committed
    /\ \E c \in RootedSwapCalls :
           Commit("zk_swap_reverse", c,
                  IF swap_constraints(pool, c) THEN zk_swap_reverse(Ledger, c)
                  ELSE ConstraintError(Ledger))

RootedSwapNext == RootedZkSwap \/ RootedZkSwapReverse \/ AddLiquidity

PublicSwapSpec == Init /\ [][RootedSwapNext]_vars

-----------------------------------------------------------------------------
(* The public swaps with amounts that carry a fee: a pool created with any  *)
(* pair of reserves up to MaxFeeReserve, a trader and two shielded vaults   *)
(* that hold FeeIn of each token, and swaps of FeeIn in both directions     *)
(* with a min_out below, at                                                 *)
(* and above the quote.  The reserve of token A is the pool's account or    *)
(* the trader's own token A account: the constraints of ZKSwap and          *)
(* ZKSwapReverse look at the mint of the reserve accounts only.             *)

FeeIn == 400

MaxFeeReserve == 2

FeeInit ==
    /\ nullifier = [a \in NullifierPdas |-> NoAccount]
    /\ \E ra, rb \in 1..MaxFeeReserve :
           /\ balance = [vault_a |-> FeeIn, vault_b |-> FeeIn,
                         reserve_a |-> ra, reserve_b |-> rb,
                         user_a |-> 0, user_b |-> 0,
                         trader_a |-> FeeIn, trader_b |-> FeeIn,
                         attacker_a |-> 0, attacker_b |-> 0]
           /\ pool = create_pool(ra, rb, "user").pool
    /\ shielded = [sp \in ShieldedPools |->
                      initialize_shielded_pool(MintOf(sp), VaultOf(sp), "authority")]
    /\ history = [rh \in Histories |->
                     initialize_shielded_root_history(
                         IF rh = "rh_a" THEN "sp_a" ELSE "sp_b")]
    /\ last = NoCall

FeeSwapCalls ==
    {[GoodPublicSwap EXCEPT !.amount_in = FeeIn, !.min_out = m, !.token_a_reserve = r] :
        m \in 0..MaxFeeReserve, r \in {"reserve_a", "trader_a"}}

FeeZkSwap ==
    /\ Committed
    /\ \E c \in FeeSwapCalls :
           Commit("zk_swap", c,
                  IF swap_constraints(pool, c) THEN zk_swap(Ledger, c)
                  ELSE ConstraintError(Ledger))

FeeZkSwapReverse ==
    /\ Committed
    /\ \E c \in FeeSwapCalls :
           Commit("zk_swap_reverse", c,
                  IF swap_constraints(pool, c) THEN zk_swap_reverse(Ledger, c)
                  ELSE ConstraintError(Ledger))

FeeNext == FeeZkSwap \/ FeeZkSwapReverse

FeeSpec == FeeInit /\ [][FeeNext]_vars

-----------------------------------------------------------------------------
(* The two swap paths side by side: from the same ledger, the same          *)
(* amount_in, min_out and direction are given to the public swap and to the *)
(* shielded swap, and the Pool record each of them leaves is recorded.      *)
(* Each behaviour is one comparison; the ledger itself is left alone.       *)

SideAmounts == (0..MaxSwapIn) \cup {FeeIn - 1, FeeIn}

SideBySide ==
    /\ last.op = "none"
    /\ \E amount_in \in SideAmounts, min_out \in 0..MaxFeeReserve, is_a_to_b \in BOOLEAN :
           LET pub == [GoodPublicSwap EXCEPT !.amount_in = amount_in,
                                             !.min_out = min_out]
               priv == [GoodSwapPrivate(is_a_to_b, 1, 0) EXCEPT
                            !.amount_in = amount_in, !.pi.amount = amount_in,
                            !.min_out = min_out]
               public == IF is_a_to_b THEN zk_swap(Ledger, pub)
                                      ELSE zk_swap_reverse(Ledger, pub)
               private == swap_private(Ledger, Wire(priv))
           IN  last' = [op |-> "side_by_side",
                        c |-> [amount_in |-> amount_in, min_out |-> min_out,
                               is_a_to_b |-> is_a_to_b],
                        res |-> "Ok",
                        public |-> [res |-> public.res, pool |-> public.L.pool],
                        private |-> [res |-> private.res, pool |-> private.L.pool]]
    /\ UNCHANGED ledgerVars

SideNext == SideBySide

SideSpec == FeeInit /\ [][SideNext]_vars

-----------------------------------------------------------------------------
(* The parsing of the public inputs on its own: the six fields of a         *)
(* client's payload framed in every way (bare, behind the 12-byte header,   *)
(* one byte short, with one or twelve trailing bytes, header and trailing   *)
(* byte), given to parse_field, to withdraw_shielded and to swap_private,   *)
(* and amount fields given to field_to_u64.  Each behaviour is one call,    *)
(* from a ledger whose vaults are funded.                                   *)

Framings(fields) ==
    {fields,
     WITNESS_HEADER \o fields,
     SubSeq(fields, 1, Len(fields) - 1),
     fields \o <<0>>,
     fields \o Zeros(HEADER_LEN),
     WITNESS_HEADER \o fields \o <<0>>}

ParseWithdrawCalls ==
    LET g == GoodWithdraw("sp_a", 1, 0)
    IN  {[Wire(g) EXCEPT !.public_inputs = bytes] :
            bytes \in UNION {Framings(PublicInputs([g.pi EXCEPT !.amount = a])) :
                                 a \in {AMOUNT, FeeIn}}}

ParseSwapCalls ==
    LET g == GoodSwapPrivate(TRUE, 1, 0)
    IN  {[Wire(g) EXCEPT !.public_inputs = bytes] :
            bytes \in Framings(PublicInputs(g.pi))}

ParseAmountFields ==
    {AmountField(a, hi) : a \in {0, AMOUNT, 255, 256, FeeIn, U64_MAX}, hi \in BOOLEAN}
    \cup {[AmountField(AMOUNT, FALSE) EXCEPT ![24] = 1]}

ParseField ==
    /\ last.op = "none"
    /\ \E c \in ParseWithdrawCalls, index \in 0..(PUBLIC_INPUTS_LEN - 1) :
           LET r == parse_field(c.public_inputs, index)
           IN  last' = [op |-> "parse_field",
                        c |-> [public_inputs |-> c.public_inputs, index |-> index],
                        res |-> r.res, out |-> r.out]
    /\ UNCHANGED ledgerVars

FieldToU64 ==
    /\ last.op = "none"
    /\ \E field_bytes \in ParseAmountFields :
           LET r == field_to_u64(field_bytes)
           IN  last' = [op |-> "field_to_u64", c |-> [field_bytes |-> field_bytes],
                        res |-> r.res, out |-> r.out]
    /\ UNCHANGED ledgerVars

ParseWithdraw ==
    /\ last.op = "none"
    /\ \E c \in ParseWithdrawCalls :
           Commit("withdraw_shielded", c, withdraw_shielded(Ledger, c))

ParseSwapPrivate ==
    /\ last.op = "none"
    /\ \E c \in ParseSwapCalls :
           Commit("swap_private", c, swap_private(Ledger, c))

ParseNext == ParseField \/ FieldToU64 \/ ParseWithdraw \/ ParseSwapPrivate

ParseSpec == FeeInit /\ [][ParseNext]_vars

-----------------------------------------------------------------------------
(* The address binding on its own: a public-input field made for one key,   *)
(* compared as withdraw_shielded and swap_private compare it with the       *)
(* field of the key of the account that was passed.  Each behaviour is one  *)
(* comparison.                                                              *)

PubkeyToFieldBytes ==
    /\ last.op = "none"
    /\ \E key, account \in DOMAIN KeyHalves :
           LET field == pubkey_to_field_bytes(key)
               expected == pubkey_to_field_bytes(account)
           IN  last' = [op |-> "pubkey_to_field_bytes",
                        c |-> [key |-> key, account |-> account],
                        res |-> IF field = expected THEN "Ok" ELSE "InvalidProof",
                        out |-> field]
    /\ UNCHANGED ledgerVars

BindingNext == PubkeyToFieldBytes

BindingSpec == MathInit /\ [][BindingNext]_vars

-----------------------------------------------------------------------------
(* The vocabulary of the properties.  `l` is a record of a call (last).     *)

SpendOps == {"withdraw_shielded", "swap_private"}

\* The shielded pool a spend names, and the nullifier identity it consumes.
SpentPool(l) ==
    IF l.op = "withdraw_shielded" THEN l.c.shielded_pool ELSE l.c.input_shielded_pool

SpentPda(l) == NullifierPda(SpentPool(l), l.c.nullifier_hash)

\* The nullifier identity was consumed: its record exists, owned by the program.
Consumed(nul, a) == nul[a].owner = PROGRAM_ID

AmountArg(l) == IF l.op = "withdraw_shielded" THEN l.c.amount ELSE l.c.amount_in

RecipientArg(l) ==
    IF l.op = "withdraw_shielded" THEN l.c.remaining[2] ELSE l.c.remaining[4]

\* The asset a spend is bound to: the mint of the shielded pool for a
\* withdrawal, the input mint of the direction for a swap.
AssetArg(l) ==
    IF l.op = "withdraw_shielded" THEN shielded[l.c.shielded_pool].mint
    ELSE IF l.c.is_a_to_b THEN pool.token_a_mint ELSE pool.token_b_mint

\* The root is in a slot of the history h.
Resident(h, root) == \E i \in 1..ROOT_HISTORY_SIZE : h.roots[i] = root

\* The recorded reserves a shielded swap quotes against.
ReserveIn(c) == IF c.is_a_to_b THEN pool.token_a_reserve ELSE pool.token_b_reserve

ReserveOut(c) == IF c.is_a_to_b THEN pool.token_b_reserve ELSE pool.token_a_reserve

-----------------------------------------------------------------------------
\* C1: for every shielded pool and nullifier hash, at most one spend of the
\* pair ever succeeds, over any mix of withdraw_shielded and swap_private:
\* a consumed identity is never released again, and every successful spend
\* finds the identity of its pair unconsumed and leaves it consumed.
C1_AtMostOneSpend ==
    [][/\ \A a \in NullifierPdas : Consumed(nullifier, a) => Consumed(nullifier', a)
       /\ (last'.op \in SpendOps /\ last'.res = "Ok")
              => /\ ~Consumed(nullifier, SpentPda(last'))
                 /\ Consumed(nullifier', SpentPda(last'))]_vars

\* A shielded swap of a note that was spent before is turned away: the
\* record of its pair does not read back as a Nullifier.
C1_Witness ==
    /\ last.op = "swap_private"
    /\ last.res = "AccountDiscriminatorMismatch"
    /\ last.cpi # <<>>
    /\ last.cpi[1].ok
    /\ Consumed(nullifier, SpentPda(last))
    /\ balance[last.c.remaining[1]] >= last.c.amount_in

\* C2: of two calls that consume the same nullifier identity, the one
\* ordered second fails and leaves every piece of state as the first left
\* it, the vault and recipient balances of a losing withdraw_shielded too.
C2_SecondSpendFails ==
    [][(last'.op \in SpendOps /\ Consumed(nullifier, SpentPda(last')))
           => (last'.res # "Ok" /\ UNCHANGED ledgerVars)]_vars

\* A withdrawal lost the race after its transfer had gone through: the
\* vault held the amount and the call was turned away at the nullifier.
C2_Witness ==
    /\ last.op = "withdraw_shielded"
    /\ last.res = "AccountDiscriminatorMismatch"
    /\ Consumed(nullifier, SpentPda(last))
    /\ last.c = GoodWithdraw(SpentPool(last), last.c.nullifier_hash, last.c.pi.root)
    /\ Resident(history[RootHistoryPda(SpentPool(last))], last.c.pi.root)
    /\ last.c.amount > 0
    /\ balance[last.c.remaining[1]] >= last.c.amount

\* C3: a swap_private call either fails and leaves the ledger as it was
\* (its nullifier unspent, the vault, the reserves, the recipient and the
\* Pool unchanged), or succeeds and none of the failures after the
\* nullifier step occurred: the vault held amount_in, the quote was made
\* and met min_out, the output reserve held the payout, and the recorded
\* reserves took the update.
C3_SwapPrivateAllOrNothing ==
    [][last'.op = "swap_private"
           => /\ last'.res # "Ok" => UNCHANGED ledgerVars
              /\ last'.res = "Ok" =>
                    LET c == last'.c
                        q == get_amount_out(c.amount_in, ReserveIn(c), ReserveOut(c))
                    IN  /\ balance[c.remaining[1]] >= c.amount_in
                        /\ q.res = "Ok"
                        /\ q.out >= c.min_out
                        /\ balance[c.remaining[3]] >= q.out
                        /\ ReserveIn(c) + c.amount_in <= U64_MAX
                        /\ ReserveOut(c) >= q.out]_vars

\* A shielded swap failed at the last step, the reserve bookkeeping, and
\* its note is still unspent.
C3_Witness ==
    /\ last.op = "swap_private"
    /\ last.res = "MathOverflow"
    /\ ~Consumed(nullifier, SpentPda(last))
    /\ balance[last.c.remaining[1]] >= last.c.amount_in
    /\ LET q == get_amount_out(last.c.amount_in, ReserveIn(last.c), ReserveOut(last.c))
       IN  /\ q.res = "Ok"
           /\ q.out >= last.c.min_out
           /\ balance[last.c.remaining[3]] >= q.out
           /\ ReserveIn(last.c) + last.c.amount_in > U64_MAX

GatedOps == {"withdraw_shielded", "swap_private", "zk_swap", "zk_swap_reverse"}

\* The public inputs a call carried, as bytes.
PayloadInputs(l) == IF l.op \in SpendOps THEN PublicInputs(l.c.pi) ELSE l.c.public_inputs

\* C4: a withdraw_shielded, swap_private, zk_swap or zk_swap_reverse call
\* succeeds only if the verifier was invoked with proof || public_inputs and
\* accepted; a call whose verifier answered anything else fails with
\* InvalidProof and changes nothing.
C4_VerifierAccepted ==
    [][last'.op \in GatedOps
           => /\ last'.res = "Ok"
                    => last'.cpi = <<[program_id |-> last'.c.verifier_program,
                                      data |-> last'.c.proof \o PayloadInputs(last'),
                                      ok |-> TRUE]>>
              /\ (last'.cpi # <<>> /\ ~last'.cpi[1].ok)
                    => (last'.res = "InvalidProof" /\ UNCHANGED ledgerVars)]_vars

\* The verifier was invoked, refused the payload, and the call failed.
C4_Witness ==
    /\ last.op \in GatedOps
    /\ last.cpi # <<>>
    /\ ~last.cpi[1].ok
    /\ last.res = "InvalidProof"

\* Fields 1 to 5, as the prover encoded them, match the call.
Bound(l) ==
    /\ l.c.pi.nul = l.c.nullifier_hash
    /\ ~l.c.pi.amount_hi
    /\ l.c.pi.amount = AmountArg(l)
    /\ AddressField(l.c.pi.recipient) = pubkey_to_field_bytes(RecipientArg(l))
    /\ AddressField(l.c.pi.mint) = pubkey_to_field_bytes(AssetArg(l))
    /\ AddressField(l.c.pi.pool) = pubkey_to_field_bytes(SpentPool(l))

\* The calls that are right but for one binding.
SingleMismatch(l) ==
    \/ /\ l.op = "withdraw_shielded"
       /\ l.c \in WithdrawBindingFaults(
                      GoodWithdraw("sp_a", 1, shielded["sp_a"].current_root))
    \/ /\ l.op = "swap_private"
       /\ l.c \in SwapPrivateBindingFaults(
                      GoodSwapPrivate(TRUE, 1, shielded["sp_a"].current_root))

\* C5: a withdraw_shielded or swap_private call succeeds only if fields 1
\* to 5 match the nullifier_hash argument, the amount argument, the
\* recipient account, the asset and the shielded pool; a call that is right
\* but for one of them fails with InvalidProof though the verifier accepted.
C5_BindingsMatch ==
    last.op \in SpendOps
        => /\ last.res = "Ok" => Bound(last)
           /\ SingleMismatch(last) => (~Bound(last) /\ last.res = "InvalidProof")

\* The verifier accepted a proof for another shielded pool.
C5_Witness ==
    /\ last.op \in SpendOps
    /\ SingleMismatch(last)
    /\ last.cpi # <<>>
    /\ last.cpi[1].ok
    /\ last.c.pi.pool # SpentPool(last)
    /\ last.res = "InvalidProof"

\* The amount field is not the plaintext amount of the call.
AmountMismatch(l) == l.c.pi.amount_hi \/ l.c.pi.amount # AmountArg(l)

\* The call is right but for its amount: with the amount field put right it
\* is the relayer's call against a root its pool's history holds.
OnlyAmountWrong(l) ==
    /\ AmountMismatch(l)
    /\ Resident(history[RootHistoryPda(SpentPool(l))], l.c.pi.root)
    /\ \/ /\ l.op = "withdraw_shielded"
          /\ [l.c EXCEPT !.amount = AMOUNT, !.pi.amount = AMOUNT,
                          !.pi.amount_hi = FALSE]
                 = GoodWithdraw(SpentPool(l), l.c.nullifier_hash, l.c.pi.root)
       \/ /\ l.op = "swap_private"
          /\ [l.c EXCEPT !.amount_in = AMOUNT, !.pi.amount = AMOUNT,
                          !.pi.amount_hi = FALSE]
                 = GoodSwapPrivate(l.c.is_a_to_b, l.c.nullifier_hash, l.c.pi.root)

\* C6: when the verifier accepts and the amount field decodes to another
\* value than the plaintext amount (amount / amount_in), the call fails,
\* moves no tokens and consumes no nullifier; the failure is InvalidProof
\* when the amount is all that is wrong with the call.
C6_AmountBound ==
    [][(last'.op \in SpendOps /\ last'.c.accepts /\ AmountMismatch(last'))
           => /\ last'.res # "Ok"
              /\ UNCHANGED ledgerVars
              /\ OnlyAmountWrong(last') => last'.res = "InvalidProof"]_vars

\* A funded withdrawal whose proof was accepted, for an amount field above
\* 64 bits, failed with InvalidProof.
C6_Witness ==
    /\ last.op = "withdraw_shielded"
    /\ last.cpi # <<>>
    /\ last.cpi[1].ok
    /\ last.c.pi.amount_hi
    /\ balance[last.c.remaining[1]] >= last.c.amount
    /\ last.res = "InvalidProof"

\* C7: a withdraw_shielded or swap_private call succeeds only if the root of
\* field 0 is, when the call executes, in the root history of the shielded
\* pool it spends from; an evicted root and a root resident only in another
\* pool's history are rejected.
C7_RootResident ==
    [][(last'.op \in SpendOps /\ last'.res = "Ok")
           => Resident(history[shielded[SpentPool(last')].root_history],
                       last'.c.pi.root)]_vars

\* Root 1 was appended to the history and later overwritten; a funded
\* spend that proves against it is rejected.
C7_Witness ==
    /\ last.op \in SpendOps
    /\ last.res = "InvalidStateRoot"
    /\ last.c.pi.root = 1
    /\ history[RootHistoryPda(SpentPool(last))].current_index > ROOT_HISTORY_SIZE
    /\ balance[last.c.remaining[1]] >= AmountArg(last)

SwapEntryOps ==
    {"zk_swap", "zk_swap_reverse", "lib_zk_swap", "lib_zk_swap_reverse",
     "zk_swap_private", "zk_swap_private_reverse", "swap_private"}

\* C8: every swap entry point called with the system program as its
\* verifier fails (InvalidVerifier is the gateway's error), moves no tokens
\* and changes no reserves.
C8_NullVerifierRejected ==
    [][(last'.op \in SwapEntryOps /\ last'.c.verifier_program = SYSTEM_PROGRAM)
           => (last'.res # "Ok" /\ UNCHANGED ledgerVars)]_vars

\* C9: verify_zk_proof fails with InvalidVerifier for the system program,
\* without invoking a verifier; for any other handle it invokes that
\* program with proof || public_inputs and succeeds exactly when it accepts.
C9_Gateway ==
    last.op = "verify_zk_proof"
        => IF last.c.verifier_program = SYSTEM_PROGRAM
           THEN last.res = "InvalidVerifier" /\ last.cpi = <<>>
           ELSE /\ last.cpi = <<[program_id |-> last.c.verifier_program,
                                 data |-> last.c.proof \o last.c.public_inputs,
                                 ok |-> last.c.accepts]>>
                /\ (last.res = "Ok") <=> last.c.accepts

\* The system program was the handle of a proof the verifier would accept.
C9_Witness ==
    /\ last.op = "verify_zk_proof"
    /\ last.c.verifier_program = SYSTEM_PROGRAM
    /\ last.c.accepts
    /\ Len(last.c.public_inputs) >= PUBLIC_INPUTS_LEN * FIELD_LEN
    /\ last.res = "InvalidVerifier"

\* C10: a swap_private call succeeds only with reserve accounts of the AMM
\* pool: token accounts the pool owns.
C10_PoolReserves ==
    (last.op = "swap_private" /\ last.res = "Ok")
        => /\ TokenOwner[last.c.remaining[2]] = AMM_POOL
           /\ TokenOwner[last.c.remaining[3]] = AMM_POOL

\* C11: a zk_swap or zk_swap_reverse call succeeds only if the root its
\* proof is bound to is in the StateRootHistory account of the call.
C11_PublicSwapRootResident ==
    (last.op \in {"zk_swap", "zk_swap_reverse"} /\ last.res = "Ok")
        => contains(last.c.history, parse_field(last.c.public_inputs, 0).out)

\* C12: in a shielded spend the nullifier is consumed before any tokens
\* leave the shielded vault: whenever the handler returns, having moved
\* tokens, it has written the nullifier record.
C12_NullifierBeforeTransfer ==
    (last.op \in SpendOps /\ "balance" \in last.wrote) => "nullifier" \in last.wrote

\* The record of the identity holds the byte of spent = true, as
\* ensure_nullifier_account writes it.
Spent(nul, a) == Consumed(nul, a) /\ nul[a].data[1] = 1

SpentPairs(nul) == {a \in NullifierPdas : Spent(nul, a)}

\* C13: once a nullifier record has spent = true no operation resets or
\* removes it: the set of spent (pool, hash) pairs never loses a member.
C13_SpentMonotone ==
    [][SpentPairs(nullifier) \subseteq SpentPairs(nullifier')]_vars

\* Two pairs are spent, and the second was spent by a shielded swap while
\* the first stayed spent.
C13_Witness ==
    /\ Cardinality(SpentPairs(nullifier)) >= 2
    /\ last.op = "swap_private"
    /\ last.res = "Ok"

\* The call names the record derived from its pool and hash.
Derived(c) == c.nullifier_info = NullifierPda(c.pool_key, c.nullifier_hash)

\* C14: ensure_nullifier_account called again for a (pool, hash) whose
\* derived record it has already written fails with NullifierAlreadySpent.
C14_RepeatedConsume ==
    [][(last'.op = "ensure_nullifier_account" /\ Derived(last'.c)
        /\ Consumed(nullifier, last'.c.nullifier_info))
           => last'.res = "NullifierAlreadySpent"]_vars

\* C15: consuming (P, h) leaves the record of every other pair as it was,
\* and whether a consume succeeds depends on the record of its own pair
\* alone: it succeeds exactly when that pair was not consumed before (and
\* the record can be funded), whatever was consumed before it.
C15_OtherPairsUntouched ==
    [][last'.op = "ensure_nullifier_account"
           => /\ \A a \in NullifierPdas \ {last'.c.nullifier_info} :
                     nullifier'[a] = nullifier[a]
              /\ Derived(last'.c)
                    => (last'.res = "Ok"
                           <=> (~Consumed(nullifier, last'.c.nullifier_info)
                                /\ last'.c.rent_paid))]_vars

\* The same hash under the other pool and the other hash under the same
\* pool were consumed before, and this pair was consumed all the same.
C15_Witness ==
    /\ last.op = "ensure_nullifier_account"
    /\ last.res = "Ok"
    /\ Consumed(nullifier, NullifierPda(OtherPool(last.c.pool_key), last.c.nullifier_hash))
    /\ Consumed(nullifier, NullifierPda(last.c.pool_key, OtherHash(last.c.nullifier_hash)))
    /\ Consumed(nullifier, last.c.nullifier_info)

\* The capacity of the ledger a membership test was asked of.
Capacity(op) ==
    IF op = "contains_root" THEN ROOT_HISTORY_SIZE ELSE STATE_ROOT_HISTORY_SIZE

\* The positions of `appended` that hold its last n entries.
LastAppends(appended, n) ==
    {i \in 1..Len(appended) : Len(appended) - i < n}

MembershipOps == {"contains_root", "contains"}

\* C16: a membership test of either ledger succeeds only for a root written
\* by one of the last `capacity` appends; a value never appended, the
\* all-zero value included, is never reported as contained.
C16_ContainsOnlyAppended ==
    (last.op \in MembershipOps /\ last.found)
        => \E i \in LastAppends(last.appended, Capacity(last.op)) :
               last.appended[i] = last.c.root

PairwiseDistinct(seq) ==
    \A i, j \in 1..Len(seq) : seq[i] = seq[j] => i = j

\* C17: of pairwise distinct roots appended to a fresh ledger of capacity
\* N, a root is contained from its append through the next N - 1 appends
\* and no longer after the N-th: the test succeeds for each of the last N
\* roots appended and fails for every root appended before them.
C17_Eviction ==
    (last.op \in MembershipOps /\ PairwiseDistinct(last.appended))
        => \A i \in 1..Len(last.appended) :
               last.appended[i] = last.c.root
                   => (last.found <=> i \in LastAppends(last.appended, Capacity(last.op)))

\* N + 1 pairwise distinct roots were appended, and the first one is gone
\* from the global ledger.
C17_Witness ==
    /\ last.op = "contains"
    /\ PairwiseDistinct(last.appended)
    /\ Len(last.appended) = STATE_ROOT_HISTORY_SIZE + 1
    /\ last.c.root = last.appended[1]
    /\ ~last.found

\* The roots a shielded pool accepts: every ring buffer, every cursor and
\* every pool's current_root.
RootState(sh, hist) ==
    <<hist, [sp \in ShieldedPools |-> sh[sp].current_root]>>

\* C18: the ring buffers, the cursors and current_root change only in a
\* successful update_shielded_root signed by the pool's stored authority
\* for the history account the pool references; an update signed by anyone
\* else fails with InvalidShieldedAccount and changes none of them.
C18_OnlyAuthorityUpdatesRoots ==
    [][/\ RootState(shielded', history') # RootState(shielded, history)
            => /\ last'.op = "update_shielded_root"
               /\ last'.res = "Ok"
               /\ last'.c.authority = shielded[last'.c.shielded_pool].authority
               /\ last'.c.root_history = shielded[last'.c.shielded_pool].root_history
       /\ (/\ last'.op = "update_shielded_root"
           /\ last'.c.authority # shielded[last'.c.shielded_pool].authority)
            => /\ last'.res = "InvalidShieldedAccount"
               /\ RootState(shielded', history') = RootState(shielded, history)]_vars

\* A stranger's update is turned away from a pool whose authority has
\* already appended a root.
C18_Witness ==
    /\ last.op = "update_shielded_root"
    /\ last.c.authority = "attacker"
    /\ last.res = "InvalidShieldedAccount"
    /\ history[last.c.root_history].current_index > 0

\* C19: update_shielded_root appends a root only when included_leaves equals
\* the pool's next_index; an update that claims another leaf count (the
\* pre-deposit count after a deposit, in particular) and passes the account
\* checks fails with InvalidStateRoot and leaves current_root, the ring
\* buffer and the cursor unchanged.
C19_LeafCountMatches ==
    [][last'.op = "update_shielded_root"
          => /\ last'.res = "Ok"
                  => last'.c.included_leaves = shielded[last'.c.shielded_pool].next_index
             /\ (/\ last'.c.included_leaves # shielded[last'.c.shielded_pool].next_index
                 /\ last'.c.authority = shielded[last'.c.shielded_pool].authority
                 /\ last'.c.root_history = shielded[last'.c.shielded_pool].root_history)
                  => /\ last'.res = "InvalidStateRoot"
                     /\ RootState(shielded', history') = RootState(shielded, history)]_vars

\* After a deposit, the authority's update still claims the leaf count from
\* before it.
C19_Witness ==
    /\ last.op = "update_shielded_root"
    /\ last.res = "InvalidStateRoot"
    /\ shielded[last.c.shielded_pool].next_index = last.c.included_leaves + 1

\* The product of the reserves a pool records.
Product(p) == p.token_a_reserve * p.token_b_reserve

AmmSwapOps == {"zk_swap", "zk_swap_reverse", "swap_private"}

\* The call swaps token A for token B.
AToB(l) ==
    IF l.op = "swap_private" THEN l.c.is_a_to_b ELSE l.op = "zk_swap"

\* C20: a successful swap (execute_swap in either direction, the AMM leg of
\* swap_private) adds amount_in to the input reserve, takes the payout from
\* the output reserve, and leaves the product of the recorded reserves no
\* smaller than it was; no step of a sequence of swaps lowers the product.
C20_ProductNotLowered ==
    [][/\ Product(pool') >= Product(pool)
       /\ (last'.op \in AmmSwapOps /\ last'.res = "Ok")
            => IF AToB(last')
               THEN /\ pool'.token_a_reserve = pool.token_a_reserve + last'.c.amount_in
                    /\ pool'.token_b_reserve <= pool.token_b_reserve
               ELSE /\ pool'.token_b_reserve = pool.token_b_reserve + last'.c.amount_in
                    /\ pool'.token_a_reserve <= pool.token_a_reserve]_vars

\* A shielded swap paid out of a pool that a public swap had already moved.
C20_Witness ==
    /\ last.op = "swap_private"
    /\ last.res = "Ok"
    /\ balance[last.c.remaining[4]] > 0
    /\ balance["trader_a"] # SwapFunds
    /\ Product(pool) > MaxReserve * MaxReserve

\* The numerator and the denominator of the quote, as exact integers.
ExactNumerator(c) == c.amount_in * 997 * c.reserve_out
ExactDenominator(c) == c.reserve_in * 1000 + c.amount_in * 997

\* No intermediate of the quote exceeds the 128-bit range.
NoOverflow(c) ==
    /\ ExactNumerator(c) <= U128_MAX
    /\ ExactDenominator(c) <= U128_MAX

\* C21: for amount_in > 0 and positive reserves for which no intermediate
\* overflows, get_amount_out returns exactly
\* floor(amount_in * 997 * reserve_out / (reserve_in * 1000 + amount_in * 997)).
C21_QuoteFormula ==
    (/\ last.op = "get_amount_out"
     /\ last.c.amount_in > 0 /\ last.c.reserve_in > 0 /\ last.c.reserve_out > 0
     /\ NoOverflow(last.c))
        => /\ last.res = "Ok"
           /\ last.out = ExactNumerator(last.c) \div ExactDenominator(last.c)

\* A quote that is not zero and where the division left a remainder.
C21_Witness ==
    /\ last.op = "get_amount_out"
    /\ last.res = "Ok"
    /\ last.out > 0
    /\ last.out * ExactDenominator(last.c) < ExactNumerator(last.c)

\* C22: the fee strictly reduces the output below the fee-free spot rate:
\* a quote that is returned satisfies
\* amount_out * reserve_in < amount_in * reserve_out.
C22_BelowSpotRate ==
    (last.op = "get_amount_out" /\ last.res = "Ok")
        => last.out * last.c.reserve_in < last.c.amount_in * last.c.reserve_out

\* A quote within one unit of the spot rate, and still below it.
C22_Witness ==
    /\ last.op = "get_amount_out"
    /\ last.res = "Ok"
    /\ last.out > 0
    /\ (last.out + 1) * last.c.reserve_in >= last.c.amount_in * last.c.reserve_out

\* C23: get_amount_out fails with ZeroAmount whenever amount_in = 0 (a zero
\* reserve or not), fails with InsufficientLiquidity whenever amount_in > 0
\* and a reserve is zero, and returns a value in neither case.
C23_ZeroInputs ==
    last.op = "get_amount_out"
        => /\ last.c.amount_in = 0 => last.res = "ZeroAmount"
           /\ (last.c.amount_in > 0 /\ (last.c.reserve_in = 0 \/ last.c.reserve_out = 0))
                  => last.res = "InsufficientLiquidity"
           /\ last.res = "Ok"
                  => (last.c.amount_in > 0 /\ last.c.reserve_in > 0
                      /\ last.c.reserve_out > 0)

\* A zero amount against an empty reserve: the amount check comes first.
C23_Witness ==
    /\ last.op = "get_amount_out"
    /\ last.c.amount_in = 0
    /\ last.c.reserve_in = 0
    /\ last.res = "ZeroAmount"

\* The quotes of every smaller amount against the reserves of the last
\* call, where one is returned.
SmallerQuotes ==
    {<<a1, get_amount_out(a1, last.c.reserve_in, last.c.reserve_out).out>> :
        a1 \in {a \in 1..(last.c.amount_in - 1) :
                   get_amount_out(a, last.c.reserve_in, last.c.reserve_out).res = "Ok"}}

EqualReservesQuote ==
    /\ last.op = "get_amount_out"
    /\ last.res = "Ok"
    /\ last.c.reserve_in = last.c.reserve_out

\* C24 as stated: for equal reserves R > 0 and amounts 0 < a1 < a2,
\* get_amount_out(a2, R, R) * a1 < get_amount_out(a1, R, R) * a2.
C24_StrictlyWorseRate ==
    EqualReservesQuote
        => \A s \in SmallerQuotes : last.out * s[1] < s[2] * last.c.amount_in

\* C24: for equal reserves R > 0 and amounts 0 < a1 < a2, the larger trade
\* gets a worse rate up to the rounding of the smaller quote:
\* get_amount_out(a2, R, R) * a1 < (get_amount_out(a1, R, R) + 1) * a2.
C24_WorseRateUpToRounding ==
    EqualReservesQuote
        => \A s \in SmallerQuotes : last.out * s[1] < (s[2] + 1) * last.c.amount_in

\* The larger trade got the better rate: the smaller quote was rounded down
\* by more.
C24_Witness ==
    /\ EqualReservesQuote
    /\ \E s \in SmallerQuotes : last.out * s[1] > s[2] * last.c.amount_in

\* C25: for all u64 inputs get_amount_out either returns the exact floor of
\* the formula or fails: a returned value had no intermediate beyond the
\* 128-bit range and is the exact quotient, not its low 64 bits, and
\* positive inputs with an intermediate beyond the range fail with
\* MathOverflow.
C25_ExactOrOverflow ==
    last.op = "get_amount_out"
        => /\ last.res = "Ok"
                => /\ NoOverflow(last.c)
                   /\ last.out = ExactNumerator(last.c) \div ExactDenominator(last.c)
           /\ (/\ last.c.amount_in > 0 /\ last.c.reserve_in > 0 /\ last.c.reserve_out > 0
               /\ ~NoOverflow(last.c))
                => last.res = "MathOverflow"

\* The numerator left the 128-bit range although the exact quotient would
\* have fitted a u64.
C25_Witness ==
    /\ last.op = "get_amount_out"
    /\ last.res = "MathOverflow"
    /\ ExactNumerator(last.c) > U128_MAX
    /\ ExactDenominator(last.c) <= U128_MAX
    /\ ExactNumerator(last.c) \div ExactDenominator(last.c) <= U64_MAX

\* C26: calculate_fee(amount) = floor(amount * 30 / 10000) for every u64
\* amount, without error.
C26_FeeFormula ==
    last.op = "calculate_fee"
        => /\ last.res = "Ok"
           /\ last.out = (last.c.amount * 30) \div 10000

\* fee(1_000) = 3.
C26_Witness ==
    /\ last.op = "calculate_fee"
    /\ last.c.amount = 1000
    /\ last.res = "Ok"
    /\ last.out = 3

\* C27: in every state after the Pool has been created, both recorded
\* reserves are strictly positive.
C27_ReservesPositive ==
    pool.token_a_reserve > 0 /\ pool.token_b_reserve > 0

\* C28: next_index starts at 0; a successful deposit_shielded raises the
\* next_index of its pool by exactly 1 and emits one DepositEvent carrying
\* the value from before the call; every other call, and every failed call,
\* leaves every next_index as it was.
C28_LeafCounter ==
    /\ \A sp \in ShieldedPools : shielded[sp].next_index = 0
    /\ [][\A sp \in ShieldedPools :
              IF /\ last'.op = "deposit_shielded" /\ last'.res = "Ok"
                 /\ last'.c.shielded_pool = sp
              THEN /\ shielded'[sp].next_index = shielded[sp].next_index + 1
                   /\ Len(last'.events) = 1
                   /\ last'.events[1].pool = sp
                   /\ last'.events[1].index = shielded[sp].next_index
              ELSE shielded'[sp].next_index = shielded[sp].next_index]_vars

\* The second leaf of a pool: the event carries index 1.
C28_Witness ==
    /\ last.op = "deposit_shielded"
    /\ last.res = "Ok"
    /\ last.events[1].index = 1
    /\ shielded[last.c.shielded_pool].next_index = 2

\* C29: the Pool field k is non-decreasing across any successful swap: after
\* a successful zk_swap, zk_swap_reverse or swap_private, pool.k is greater
\* than or equal to its value before the call.
C29_KNotLowered ==
    [][(last'.op \in AmmSwapOps /\ last'.res = "Ok") => pool'.k >= pool.k]_vars

\* After a successful swap that raised the product of the reserves, k is
\* what it was at creation.
C29_Witness ==
    /\ last.op \in AmmSwapOps
    /\ last.res = "Ok"
    /\ pool.k < Product(pool)
    /\ pool.k > 0

\* What a successful withdraw_shielded leaves alone, and its nullifier: it
\* marks the nullifier of the call spent and no other, and leaves
\* next_index, current_root, the root histories, the Pool and every token
\* account other than the vault and the recipient unchanged.  The vault is
\* the one of the shielded pool, which the pool's own identity owns.
WithdrawFrame(c) ==
    /\ c.remaining[1] = VaultOf(c.shielded_pool)
    /\ TokenOwner[c.remaining[1]] = c.shielded_pool
    /\ \A t \in DOMAIN balance \ {c.remaining[1], c.remaining[2]} :
           balance'[t] = balance[t]
    /\ {a \in NullifierPdas : nullifier'[a] # nullifier[a]} = {SpentPda(last')}
    /\ ~Spent(nullifier, SpentPda(last'))
    /\ Spent(nullifier', SpentPda(last'))
    /\ UNCHANGED <<shielded, history, pool>>

\* C30 as stated: every successful withdraw_shielded takes exactly amount
\* from the vault and adds exactly amount to the recipient.
C30_WithdrawEffect ==
    [][(last'.op = "withdraw_shielded" /\ last'.res = "Ok")
          => /\ balance'[last'.c.remaining[1]]
                    = balance[last'.c.remaining[1]] - last'.c.amount
             /\ balance'[last'.c.remaining[2]]
                    = balance[last'.c.remaining[2]] + last'.c.amount
             /\ WithdrawFrame(last'.c)]_vars

\* C30: a successful withdraw_shielded whose recipient is another token
\* account than the vault takes exactly amount from the vault and adds
\* exactly amount to the recipient; one that names the vault itself as the
\* recipient changes no balance; either way the nullifier of the call is
\* marked spent and nothing else changes.
C30_WithdrawEffectDistinct ==
    [][(last'.op = "withdraw_shielded" /\ last'.res = "Ok")
          => /\ IF last'.c.remaining[2] # last'.c.remaining[1]
                THEN /\ balance'[last'.c.remaining[1]]
                            = balance[last'.c.remaining[1]] - last'.c.amount
                     /\ balance'[last'.c.remaining[2]]
                            = balance[last'.c.remaining[2]] + last'.c.amount
                ELSE balance' = balance
             /\ WithdrawFrame(last'.c)]_vars

\* A withdrawal of a positive amount to the user's account went through.
C30_Witness ==
    /\ last.op = "withdraw_shielded"
    /\ last.res = "Ok"
    /\ last.c.amount > 0
    /\ last.c.remaining[2] # last.c.remaining[1]
    /\ balance[last.c.remaining[2]] >= last.c.amount
    /\ Spent(nullifier, SpentPda(last))

\* C31: a successful swap_private moves exactly amount_in out of the input
\* shielded vault, pays the recipient exactly the quote of amount_in against
\* the reserves recorded before the call, which is at least min_out, and
\* changes the recorded reserves by +amount_in on the input side and by
\* -amount_out on the output side.
C31_SwapPrivateEffect ==
    [][(last'.op = "swap_private" /\ last'.res = "Ok")
          => LET c == last'.c
                 q == get_amount_out(c.amount_in, ReserveIn(c), ReserveOut(c))
             IN  /\ q.res = "Ok"
                 /\ q.out >= c.min_out
                 /\ balance'[c.remaining[1]] = balance[c.remaining[1]] - c.amount_in
                 /\ balance'[c.remaining[4]] = balance[c.remaining[4]] + q.out
                 /\ IF c.is_a_to_b
                    THEN /\ pool'.token_a_reserve = pool.token_a_reserve + c.amount_in
                         /\ pool'.token_b_reserve = pool.token_b_reserve - q.out
                    ELSE /\ pool'.token_b_reserve = pool.token_b_reserve + c.amount_in
                         /\ pool'.token_a_reserve = pool.token_a_reserve - q.out]_vars

\* The reserves a public swap quotes against, and the accounts and the fee
\* total of its input side.  `l` is the record of a zk_swap / zk_swap_reverse.
PublicForward(l) == l.op = "zk_swap"

PublicReserveIn(l) ==
    IF PublicForward(l) THEN pool.token_a_reserve ELSE pool.token_b_reserve

PublicReserveOut(l) ==
    IF PublicForward(l) THEN pool.token_b_reserve ELSE pool.token_a_reserve

PublicQuote(l) ==
    get_amount_out(l.c.amount_in, PublicReserveIn(l), PublicReserveOut(l))

\* C32: a public swap succeeds only if the quote of amount_in against the
\* recorded reserves is at least min_out, and a quote below min_out fails
\* with SlippageExceeded and changes nothing; on success the caller's input
\* account is debited amount_in, the caller's output account is credited
\* the quote, the recorded input reserve grows by amount_in, the recorded
\* output reserve shrinks by the quote, and calculate_fee(amount_in) is
\* added to the accumulated fee of the input side only.
C32_PublicSwapEffect ==
    [][(last'.op \in {"zk_swap", "zk_swap_reverse"})
          => LET c == last'.c
                 q == PublicQuote(last')
                 fwd == PublicForward(last')
                 user_in == IF fwd THEN c.user_token_a ELSE c.user_token_b
                 user_out == IF fwd THEN c.user_token_b ELSE c.user_token_a
             IN  /\ (last'.res = "Ok")
                       => /\ q.res = "Ok"
                          /\ q.out >= c.min_out
                          /\ balance'[user_in] = balance[user_in] - c.amount_in
                          /\ balance'[user_out] = balance[user_out] + q.out
                          /\ pool'.token_a_reserve =
                                 IF fwd THEN pool.token_a_reserve + c.amount_in
                                        ELSE pool.token_a_reserve - q.out
                          /\ pool'.token_b_reserve =
                                 IF fwd THEN pool.token_b_reserve - q.out
                                        ELSE pool.token_b_reserve + c.amount_in
                          /\ pool'.total_fees_a =
                                 IF fwd THEN pool.total_fees_a + calculate_fee(c.amount_in).out
                                        ELSE pool.total_fees_a
                          /\ pool'.total_fees_b =
                                 IF fwd THEN pool.total_fees_b
                                        ELSE pool.total_fees_b + calculate_fee(c.amount_in).out
                 /\ (q.res = "Ok" /\ q.out < c.min_out)
                       => /\ last'.res = "SlippageExceeded"
                          /\ UNCHANGED ledgerVars]_vars

\* C33: pubkey_to_field_bytes yields different fields for any two distinct
\* account identities, so a field made for one key is accepted for the
\* account of that key only; the same for the mint and the shielded pool.
C33_BindingInjective ==
    (last.op = "pubkey_to_field_bytes" /\ last.c.key # last.c.account)
        => last.res = "InvalidProof"

\* The tokens of a mint: the sum of the balances of its token accounts.
RECURSIVE SumOver(_, _)
SumOver(bal, accounts) ==
    IF accounts = {} THEN 0
    ELSE LET t == CHOOSE x \in accounts : TRUE
         IN  bal[t] + SumOver(bal, accounts \ {t})

Supply(bal, mint) == SumOver(bal, {t \in TokenAccounts : TokenMint[t] = mint})

\* What the successful call of the record l deposited into the vault of the
\* shielded pool sp, less what it paid out of it.
VaultChange(l, sp) ==
    IF l.res # "Ok" THEN 0
    ELSE IF l.op = "deposit_shielded" /\ l.c.shielded_pool = sp THEN l.c.amount
    ELSE IF l.op \in SpendOps /\ SpentPool(l) = sp THEN 0 - AmountArg(l)
    ELSE 0

\* C34: every operation leaves the sum of the balances of each mint
\* unchanged and no balance negative; the vault of a shielded pool changes
\* by what a successful deposit_shielded put in and by what a successful
\* withdraw_shielded or swap_private paid out of it (starting from the empty
\* vault, its balance is deposits minus payouts); a withdraw of more than
\* the vault holds fails and changes nothing.
C34_TokenConservation ==
    [][/\ \A m \in Mints : Supply(balance', m) = Supply(balance, m)
       /\ \A t \in TokenAccounts : balance'[t] >= 0
       /\ \A sp \in ShieldedPools :
              balance'[VaultOf(sp)] = balance[VaultOf(sp)] + VaultChange(last', sp)
       /\ (last'.op = "withdraw_shielded"
              /\ last'.c.amount > balance[last'.c.remaining[1]])
             => (last'.res # "Ok" /\ UNCHANGED ledgerVars)]_vars

\* C35: every nullifier record owned by the program has spent = true, and
\* no operation writes to a record that exists: records are created spent,
\* and the branch that flips an existing unspent record is never taken.
C35_RecordsAreSpent ==
    [][\A a \in NullifierPdas :
          /\ Consumed(nullifier', a) => Spent(nullifier', a)
          /\ Consumed(nullifier, a) => nullifier'[a] = nullifier[a]]_vars

\* ensure_nullifier_account met a record that exists, and it reads spent.
C35_Witness ==
    /\ last.op = "ensure_nullifier_account"
    /\ last.res # "Ok"
    /\ last.c.nullifier_info = NullifierPda(last.c.pool_key, last.c.nullifier_hash)
    /\ Spent(nullifier, last.c.nullifier_info)
    /\ \E a \in NullifierPdas : ~Consumed(nullifier, a)

\* C36: the current_root of every shielded pool is contained in the pool's
\* root history, before the first update and after any sequence of
\* successful and failed update_shielded_root calls.
C36_CurrentRootContained ==
    \A sp \in ShieldedPools :
        contains_root(history[shielded[sp].root_history],
                      Bytes32(shielded[sp].current_root))

\* An update succeeded after the ring buffer had wrapped around: no slot
\* holds the zero root of the fresh ledger any more.
C36_Witness ==
    /\ last.op = "update_shielded_root"
    /\ last.res = "Ok"
    /\ history[last.c.root_history].current_index > ROOT_HISTORY_SIZE
    /\ shielded[last.c.shielded_pool].current_root = last.c.new_root
    /\ ~Resident(history[last.c.root_history], 0)

\* The verifier accepts the call and its accounts pass the account checks
\* of the handler: the vault and the root history are the shielded pool's,
\* and the token accounts have the mints the pool (and the direction) asks.
ValidAccounts(l) ==
    LET c == l.c
        sp == SpentPool(l)
        r == c.remaining
    IN  /\ c.verifier_program = VERIFIER
        /\ c.accepts
        /\ c.pi.layout # "short"
        /\ IF l.op = "withdraw_shielded"
           THEN /\ Len(r) >= 2
                /\ r[1] = VaultOf(sp)
                /\ TokenMint[r[2]] = MintOf(sp)
                /\ c.root_history = RootHistoryPda(sp)
           ELSE /\ Len(r) >= 4
                /\ MintOf(sp) = (IF c.is_a_to_b THEN "mint_a" ELSE "mint_b")
                /\ r[1] = VaultOf(sp)
                /\ TokenMint[r[2]] = MintOf(sp)
                /\ TokenMint[r[3]] = OtherMint(MintOf(sp))
                /\ TokenMint[r[4]] = OtherMint(MintOf(sp))
                /\ c.input_root_history = RootHistoryPda(sp)

\* C37: with valid accounts and an accepted proof, a withdraw_shielded or
\* swap_private whose root is not in the pool's root history fails with
\* InvalidStateRoot, whether or not a binding field also mismatches;
\* InvalidProof is reported for a binding mismatch only when the root is in
\* the history.
C37_RootCheckedFirst ==
    (last.op \in SpendOps /\ ValidAccounts(last))
        => LET resident == Resident(history[RootHistoryPda(SpentPool(last))],
                                    last.c.pi.root)
           IN  /\ ~resident => last.res = "InvalidStateRoot"
               /\ (~Bound(last) /\ last.res = "InvalidProof") => resident

\* C38: from the same Pool record, with the same amount_in, min_out and
\* direction, a successful swap_private and a successful public swap leave
\* the same Pool record: the same recorded reserves, the same k and the
\* same total_fees_a and total_fees_b.
C38_SamePoolRecord ==
    (last.op = "side_by_side" /\ last.public.res = "Ok" /\ last.private.res = "Ok")
        => last.public.pool = last.private.pool

\* C39: every quote get_amount_out returns is strictly smaller than
\* reserve_out, so the checked subtraction of the quote from the recorded
\* output reserve never fails and no swap brings a positive recorded reserve
\* down to zero: positive recorded reserves stay positive over any sequence
\* of swaps.
C39_OutputReserveNeverDrained ==
    [][last'.op \in AmmSwapOps
          => LET fwd == AToB(last')
                 reserve_in == IF fwd THEN pool.token_a_reserve ELSE pool.token_b_reserve
                 reserve_out == IF fwd THEN pool.token_b_reserve ELSE pool.token_a_reserve
                 q == get_amount_out(last'.c.amount_in, reserve_in, reserve_out)
             IN  /\ q.res = "Ok"
                       => /\ q.out < reserve_out
                          /\ checked_sub(reserve_out, q.out) # None
                 /\ (pool.token_a_reserve > 0 /\ pool.token_b_reserve > 0)
                       => (pool'.token_a_reserve > 0 /\ pool'.token_b_reserve > 0)]_vars

\* A public swap was paid out of the output reserve and left one unit in it.
C39_Witness ==
    /\ last.op = "zk_swap"
    /\ last.res = "Ok"
    /\ balance["trader_b"] > 0
    /\ pool.token_b_reserve = 1
    /\ pool.token_a_reserve >= MaxReserve

\* Bytes [from, from + 32) of the input, counted from 0.
FieldAt(public_inputs, from) == SubSeq(public_inputs, from + 1, from + 32)

\* C40: an input of exactly 6*32+12 bytes is headered, its field i is bytes
\* [12 + 32i, 12 + 32i + 32); an input of any other length of at least 6*32
\* bytes is unheadered, its field i is bytes [32i, 32i + 32); an input
\* shorter than 6*32 bytes makes withdraw_shielded and swap_private fail
\* with InvalidProof before the verifier is invoked; an amount field is
\* accepted only when its high 24 bytes are zero, and its value is the
\* big-endian reading of its low 8 bytes.
C40_PublicInputParsing ==
    /\ last.op = "parse_field"
          => LET bytes == last.c.public_inputs
                 i == last.c.index
             IN  /\ Len(bytes) = 6 * 32 + 12
                       => (last.res = "Ok" /\ last.out = FieldAt(bytes, 12 + 32 * i))
                 /\ (Len(bytes) # 6 * 32 + 12 /\ Len(bytes) >= 6 * 32)
                       => (last.res = "Ok" /\ last.out = FieldAt(bytes, 32 * i))
    /\ (last.op \in SpendOps /\ Len(last.c.public_inputs) < 6 * 32)
          => (last.res = "InvalidProof" /\ last.cpi = <<>>)
    /\ last.op = "field_to_u64"
          => LET field == last.c.field_bytes
             IN  /\ last.res = "Ok" <=> (\A k \in 1..24 : field[k] = 0)
                 /\ last.res # "Ok" => last.res = "InvalidProof"
                 /\ (last.res = "Ok" /\ \A k \in 25..30 : field[k] = 0)
                       => last.out = 256 * field[31] + field[32]

\* A withdrawal whose payload had the 12-byte header passed the bindings:
\* its fields were read from behind the header.
C40_Witness ==
    /\ last.op = "withdraw_shielded"
    /\ Len(last.c.public_inputs) = 6 * 32 + 12
    /\ SubSeq(last.c.public_inputs, 1, HEADER_LEN) = WITNESS_HEADER
    /\ last.res = "Ok"

=============================================================================
